---- MODULE Spec2Model ----
(***************************************************************************)
(* A model of the NetSuiteSDF editor extension (src/src/netsuite-sdf.ts):  *)
(* the NetSuiteSDF object, the commands that run on it as interleaved      *)
(* async functions, the account listing it parses and the line pipeline    *)
(* of one sdfcli subprocess.                                               *)
(*                                                                         *)
(* Text is a sequence of atoms.  An atom is a character ("\n", "|", ":",   *)
(* " ") or a piece of text that is compared only as a whole (a prompt      *)
(* phrase, a boilerplate prefix, a letter of an authid).  includes,        *)
(* startsWith, split and trim are computed on these sequences.             *)
(***************************************************************************)
EXTENDS Integers, Sequences, FiniteSets, TLC

\* Bounds of the model: the invocations in flight at one time, the
\* invocations of one run, and the directories tmp creates in one run.
MaxTasks == 2
MaxInvocations == 2
MaxTmp == 1

VARIABLES
  this,      \* the fields of the NetSuiteSDF object
  fs,        \* the directories the extension creates, and the tmp name source
  task,      \* the command invocations in flight, one per slot
  shown,     \* the notifications shown by the last step
  picked,    \* the answer of the chooser in the last step, if it gave one
  returned,  \* the command that returned in the last step, if any
  invoked,   \* the number of invocations so far
  sess,      \* one Process Session: its lines, prompts, stdin and result
  listing,   \* one account listing, as rows and as the text sdfcli prints
  listed,    \* the last step has invoked the account listing
  mf,        \* the manifest file deploy.xml, its writes in flight, and one call
  gl,        \* one pattern resolution: the tree, the patterns, the result
  av,        \* one argument vector: the inputs of runCommand and the result
  boot,      \* the constructor's check of sdfcli: "checking", "missing", "done"
  fl         \* one flow with prompts: its place, its sub-flows, what it has done

vars == <<this, fs, task, shown, picked, returned, invoked, sess, listing,
          listed, mf, gl, av, boot, fl>>

Tasks == 1..MaxTasks

(***************************************************************************)
(* Optional values (undefined / null versus a value).                      *)
(***************************************************************************)
Undefined == <<>>
Some(v) == <<v>>
IsSet(o) == o # <<>>
Val(o) == o[1]

(***************************************************************************)
(* String primitives on sequences of atoms.                                *)
(***************************************************************************)
IsWhitespace(c) == c \in {" ", "\n"}

RECURSIVE TrimStart(_)
TrimStart(s) ==
  IF s # <<>> /\ IsWhitespace(Head(s)) THEN TrimStart(Tail(s)) ELSE s

RECURSIVE TrimEnd(_)
TrimEnd(s) ==
  IF s # <<>> /\ IsWhitespace(s[Len(s)])
  THEN TrimEnd(SubSeq(s, 1, Len(s) - 1))
  ELSE s

Trim(s) == TrimEnd(TrimStart(s))

\* String.prototype.split on a one-character separator: k separators give
\* k + 1 pieces, the empty text gives one empty piece.
RECURSIVE Split(_, _)
Split(s, sep) ==
  IF \E i \in 1..Len(s) : s[i] = sep
  THEN LET i == CHOOSE i \in 1..Len(s) :
                  s[i] = sep /\ \A j \in 1..(i - 1) : s[j] # sep
       IN <<SubSeq(s, 1, i - 1)>> \o Split(SubSeq(s, i + 1, Len(s)), sep)
  ELSE <<s>>

StartsWith(s, p) == Len(p) <= Len(s) /\ SubSeq(s, 1, Len(p)) = p

Includes(s, p) ==
  \E i \in 0..(Len(s) - Len(p)) : SubSeq(s, i + 1, i + Len(p)) = p

(***************************************************************************)
(* Paths are sequences of segments.                                        *)
(***************************************************************************)
rootPath == <<"root">>

\* os.tmpdir() of the machine: under /var (macOS) or /tmp (Linux).
OsTmpdirs == {<<"var", "folders">>, <<"tmp">>}

\* The names tmp.dirSync hands out, never one twice.
TmpName(n) == <<"tmp-1", "tmp-2", "tmp-3", "tmp-4">>[n]

(***************************************************************************)
(* What `sdfcli manageauth -list` prints: a header line, then one line     *)
(* per authid.                                                             *)
(***************************************************************************)
ListingNone == <<"H", "\n">>
ListingA == <<"H", "\n", "a", " ", "|", "x", "\n">>
ListingB == <<"H", "\n", " ", "b", "|", "x", "\n">>
ListingAB == <<"H", "\n", "a", " ", "|", "x", "\n", "b", " ", "|", "x", "\n">>
Listings == {ListingNone, ListingA, ListingAB}

(***************************************************************************)
(* Notifications.                                                          *)
(***************************************************************************)
NotFoundMessage == "'sdfcli' not found in path. Please restart VS Code if you installed it."
NoAuthidsMessage == "No authids detected.  Please configure an authid for your environment"
OnlyOneMessage == "Found only one environment."

(***************************************************************************)
(* The object once the constructor's check of sdfcli has ended.            *)
(***************************************************************************)
InitThis ==
  [sdfCliIsInstalled : BOOLEAN,
   sdfConfig : {Undefined},
   activeEnvironment : {Undefined},
   addDefaultParameters : {TRUE},
   doAddProjectParameter : {TRUE},
   doReturnData : {FALSE},
   doShowOutput : {TRUE},
   intervalId : {Undefined},
   timers : {{}},
   savedStatus : {Undefined},
   currentObject : {Undefined},
   sdfcli : {Undefined},
   tempDir : {Undefined},
   rootPath : {Undefined},
   statusText : {<<"SDF">>}]

(***************************************************************************)
(* The state one step works on: the object, the directories, and the       *)
(* notifications the step has shown so far.                                *)
(***************************************************************************)
World == [this |-> this, fs |-> fs, shown |-> {}, listed |-> FALSE]

Note(w, message) == [w EXCEPT !.shown = @ \cup {message}]

statusBarDefault(o) ==
  IF IsSet(o.activeEnvironment)
  THEN <<"SDF (">> \o Val(o.activeEnvironment).authid \o <<")">>
  ELSE <<"SDF">>

clearStatus(o) ==
  IF IsSet(o.savedStatus)
  THEN [o EXCEPT !.statusText = Val(o.savedStatus), !.savedStatus = Undefined]
  ELSE [o EXCEPT !.statusText = statusBarDefault(o)]

\* The two texts the callback of showStatus appends in turn.
SpinnerModes == <<" [= ]", " [ =]">>

\* setInterval hands out an id that no live timer has.
freshTimer(timers) ==
  CHOOSE n \in 1..(Cardinality(timers) + 1) : \A r \in timers : r.id # n

\* showStatus saves the text and starts an interval timer, whose callback
\* keeps its currentMode; timers holds the timers that have not been
\* cleared.
showStatus(o) ==
  LET id == freshTimer(o.timers)
  IN [o EXCEPT !.savedStatus = Some(o.statusText),
               !.intervalId = Some(id),
               !.timers = @ \cup {[id |-> id, currentMode |-> 1]}]

\* clearInterval(this.intervalId): clearing undefined clears nothing.
clearInterval(o) ==
  [o EXCEPT !.timers = {r \in @ : o.intervalId # Some(r.id)}]

\* The callback of the timer r: this.savedStatus + currentMode, where an
\* undefined savedStatus concatenates as the text 'undefined'.
spinnerTick(o, r) ==
  LET mode == 3 - r.currentMode
      saved == IF IsSet(o.savedStatus) THEN Val(o.savedStatus) ELSE <<"undefined">>
  IN [o EXCEPT !.statusText = saved \o <<SpinnerModes[mode]>>,
               !.timers = (@ \ {r}) \cup {[r EXCEPT !.currentMode = mode]}]

\* tempDir.removeCallback() removes the directory tmp created, tempDir.name.
cleanup(w) ==
  LET kept == IF w.this.doReturnData
              THEN w.this
              ELSE [w.this EXCEPT !.currentObject = Undefined]
      o == clearStatus(clearInterval(kept))
      removed == IF IsSet(w.this.tempDir)
                 THEN {Val(w.this.tempDir).name}
                 ELSE {}
  IN [w EXCEPT
        !.this = [o EXCEPT !.doAddProjectParameter = TRUE,
                           !.doReturnData = FALSE,
                           !.intervalId = Undefined,
                           !.sdfcli = Undefined,
                           !.doShowOutput = TRUE,
                           !.tempDir = Undefined,
                           !.addDefaultParameters = TRUE],
        !.fs.tmpDirs = @ \ removed]

(***************************************************************************)
(* The registry.                                                           *)
(***************************************************************************)
\* lines.slice(1).map(line => ({authid: line.split('|')[0].trim()}))
\* The environments without the trim of the first field.
parseEnvironmentsUntrimmed(lines) ==
  [i \in 1..(Len(lines) - 1) |-> [authid |-> Split(lines[i + 1], "|")[1]]]

\* The environments of the lines after the header.
parseEnvironments(lines) ==
  [i \in 1..(Len(lines) - 1) |-> [authid |-> Trim(Split(lines[i + 1], "|")[1])]]

\* The load branch of getConfig; out is the output of the account listing.
loadConfig(w, out) ==
  LET lines == Split(Trim(out), "\n")
      w1 == [w EXCEPT !.listed = TRUE]
  IN IF Len(lines) < 2
     THEN Note(w1, NoAuthidsMessage)
     ELSE [w1 EXCEPT !.this.sdfConfig =
                        Some([environments |-> parseEnvironments(lines)])]

\* Object.keys of the environments keyed by authid: each authid once, in
\* the order of its first occurrence.
RECURSIVE environmentNames(_)
environmentNames(envs) ==
  IF envs = <<>> THEN <<>>
  ELSE LET rest == environmentNames(SubSeq(envs, 1, Len(envs) - 1))
           name == envs[Len(envs)].authid
       IN IF \E i \in 1..Len(rest) : rest[i] = name
          THEN rest
          ELSE Append(rest, name)

setActiveEnvironment(w, name) ==
  LET o == [w.this EXCEPT !.activeEnvironment = Some([authid |-> name])]
  IN [w EXCEPT !.this = [o EXCEPT !.statusText = statusBarDefault(o)]]

\* An inner function that takes the first environment whenever there is one.
selectEnvironmentFirst(w) ==
  LET names == environmentNames(Val(w.this.sdfConfig).environments)
  IN IF Len(names) >= 1
     THEN [w |-> Note(setActiveEnvironment(w, names[1]), OnlyOneMessage),
           wait |-> FALSE, names |-> <<>>]
     ELSE [w |-> w, wait |-> TRUE, names |-> names]

\* The inner function of selectEnvironment, up to the chooser: wait says
\* that the chooser is shown, with names as its items.
selectEnvironmentInner(w) ==
  LET names == environmentNames(Val(w.this.sdfConfig).environments)
  IN IF Len(names) = 1
     THEN [w |-> Note(setActiveEnvironment(w, names[1]), OnlyOneMessage),
           wait |-> FALSE, names |-> <<>>]
     ELSE [w |-> w, wait |-> TRUE, names |-> names]

selectEnvironment(w, out) ==
  IF ~w.this.sdfCliIsInstalled
  THEN [w |-> Note(w, NotFoundMessage), wait |-> FALSE, names |-> <<>>]
  ELSE IF IsSet(w.this.sdfConfig)
  THEN selectEnvironmentInner(w)
  ELSE [w |-> loadConfig([w EXCEPT !.this.rootPath = Some(rootPath)], out),
        wait |-> FALSE, names |-> <<>>]

\* A getConfig that loads the registry only when there is none.
getConfigLoadOnce(w, force, out) ==
  LET w1 == [w EXCEPT !.this.rootPath = Some(rootPath)]
  IN
  IF ~w.this.sdfCliIsInstalled
  THEN [w |-> Note(w, NotFoundMessage), wait |-> FALSE, names |-> <<>>]
  ELSE IF ~IsSet(w1.this.sdfConfig)
  THEN [w |-> loadConfig(w1, out), wait |-> FALSE, names |-> <<>>]
  ELSE IF ~IsSet(w1.this.activeEnvironment)
  THEN selectEnvironment(w1, out)
  ELSE [w |-> w1, wait |-> FALSE, names |-> <<>>]

getConfig(w, force, out) ==
  LET w1 == [w EXCEPT !.this.rootPath = Some(rootPath)]
  IN
  IF ~w.this.sdfCliIsInstalled
  THEN [w |-> Note(w, NotFoundMessage), wait |-> FALSE, names |-> <<>>]
  ELSE IF force \/ ~IsSet(w1.this.sdfConfig)
  THEN [w |-> loadConfig(w1, out), wait |-> FALSE, names |-> <<>>]
  ELSE IF ~IsSet(w1.this.activeEnvironment)
  THEN selectEnvironment(w1, out)
  ELSE [w |-> w1, wait |-> FALSE, names |-> <<>>]

(***************************************************************************)
(* Command invocations.  A task is one invocation, at the place where it   *)
(* waits: for the chooser, for the files of the staging step, or for its   *)
(* subprocess.                                                             *)
(***************************************************************************)
Kinds == {"validate", "listBundles", "deploy", "refreshConfig", "selectEnvironment"}

IdleTask ==
  [kind |-> "none", pc |-> "idle", k |-> "none", quick |-> FALSE,
   names |-> <<>>, tmp |-> Undefined, cwd |-> <<>>, argv |-> <<>>, spawns |-> 0]

\* promise is the state of the promise that runCommand returned, if the
\* command got as far as the subprocess.
NoReturn ==
  [kind |-> "none", quick |-> FALSE, outcome |-> "none", tmp |-> Undefined,
   promise |-> "none", spawns |-> 0]

Return(tk, outcome) ==
  [kind |-> tk.kind, quick |-> tk.quick, outcome |-> outcome, tmp |-> tk.tmp,
   promise |-> "none", spawns |-> tk.spawns]

\* The invocation has returned / the invocation waits.
Done(w, tk, outcome) == [w |-> w, task |-> IdleTask, ret |-> Return(tk, outcome)]
Wait(w, tk) == [w |-> w, task |-> tk, ret |-> NoReturn]

\* The CLICommand that a command hands to runCommand.
CLICommandOf(kind) ==
  CASE kind = "validate" -> "Validate"
    [] kind = "listBundles" -> "ListBundles"
    [] kind = "deploy" -> "Deploy"

RECURSIVE splitArgs(_)
\* The loop over args: each is split at its spaces and the pieces pushed.
splitArgs(args) ==
  IF args = <<>> THEN <<>>
  ELSE Split(Head(args), " ") \o splitArgs(Tail(args))

\* A commandArray with '-p' pushed before '-authid'.
commandArrayProjectFirst(command, o, workPath, args) ==
  <<<<command>>>>
  \o (IF o.doAddProjectParameter THEN <<<<"-p">>, workPath>> ELSE <<>>)
  \o (IF o.addDefaultParameters
      THEN <<<<"-authid">>, Val(o.activeEnvironment).authid>>
      ELSE <<>>)
  \o splitArgs(args)

\* The commandArray of runCommand, a sequence of texts.
commandArray(command, o, workPath, args) ==
  <<<<command>>>>
  \o (IF o.addDefaultParameters
      THEN <<<<"-authid">>, Val(o.activeEnvironment).authid>>
      ELSE <<>>)
  \o (IF o.doAddProjectParameter THEN <<<<"-p">>, workPath>> ELSE <<>>)
  \o splitArgs(args)

\* The stream of a failed subprocess rejects; the catch handler of
\* runCommand runs cleanup and settles the promise with what cleanup
\* returns, undefined.  A stream that completes resolves the promise.
settle(w, exit) ==
  IF exit = "failed"
  THEN [w |-> cleanup(w), promise |-> "resolved"]
  ELSE [w |-> w, promise |-> "resolved"]

\* What the caller of runCommand does once runCommand has returned: deploy
\* with useQuickDeploy starts rimraf on rootPath + '/var' (rimraf works in
\* the background and calls back), every command then returns.
afterRunCommand(w, tk, outcome, promise) ==
  LET d == IF tk.kind = "deploy" /\ tk.quick
           THEN Done([w EXCEPT !.fs.rimraf = TRUE], tk, outcome)
           ELSE Done(w, tk, outcome)
  IN [d EXCEPT !.ret.promise = promise]

\* runCommand from the end of the stream on: the promise of the stream is
\* settled, cleanup runs, and runCommand returns.
runCommandExit(w, tk, exit) ==
  LET s == settle(w, exit)
  IN afterRunCommand(cleanup(s.w), tk, exit, s.promise)

\* The workPath of runCommand.
workPathOf(o) ==
  IF IsSet(o.tempDir) THEN rootPath \o Val(o.tempDir).name ELSE rootPath

\* A runCommand that spawns whenever there is a registry.
runCommandSpawnUnguarded(w, tk, id) ==
  IF IsSet(w.this.sdfConfig)
  THEN LET workPath == workPathOf(w.this)
           o == IF IsSet(w.this.activeEnvironment)
                THEN w.this
                ELSE [w.this EXCEPT !.addDefaultParameters = FALSE]
       IN Wait([w EXCEPT !.this = showStatus([@ EXCEPT !.sdfcli = Some(id)])],
               [tk EXCEPT !.pc = "running", !.cwd = workPath,
                          !.argv = commandArray(CLICommandOf(tk.kind), o,
                                                workPath, <<>>),
                          !.spawns = @ + 1])
  ELSE afterRunCommand(w, tk, "nosession", "resolved")

\* runCommand after its getConfig: spawn in workPath, or return at once.
runCommandSpawn(w, tk, id) ==
  IF IsSet(w.this.sdfConfig) /\ IsSet(w.this.activeEnvironment)
  THEN LET workPath == workPathOf(w.this)
       IN Wait([w EXCEPT !.this = showStatus([@ EXCEPT !.sdfcli = Some(id)])],
               [tk EXCEPT !.pc = "running", !.cwd = workPath,
                          !.argv = commandArray(CLICommandOf(tk.kind), w.this,
                                                workPath, <<>>),
                          !.spawns = @ + 1])
  ELSE afterRunCommand(w, tk, "nosession", "resolved")

runCommand(w, tk, id, out) ==
  LET g == getConfig(w, FALSE, out)
  IN IF g.wait
     THEN Wait(g.w, [tk EXCEPT !.pc = "chooser", !.k = "run", !.names = g.names])
     ELSE runCommandSpawn(g.w, tk, id)

\* deploy after its own getConfig.
deployAfterConfig(w, tk, id, out) ==
  IF tk.quick
  THEN Wait(w, [tk EXCEPT !.pc = "staging"])
  ELSE runCommand(w, tk, id, out)

\* A command from its invocation to its first wait.
invoke(w, tk, id, out) ==
  CASE tk.kind \in {"validate", "listBundles", "deploy"} /\ ~w.this.sdfCliIsInstalled ->
         Done(Note(w, NotFoundMessage), tk, "notfound")
    [] tk.kind = "validate" /\ w.this.sdfCliIsInstalled ->
         runCommand(w, tk, id, out)
    [] tk.kind = "listBundles" /\ w.this.sdfCliIsInstalled ->
         runCommand([w EXCEPT !.this.doAddProjectParameter = FALSE], tk, id, out)
    [] tk.kind = "deploy" /\ w.this.sdfCliIsInstalled ->
         LET g == getConfig(w, FALSE, out)
         IN IF g.wait
            THEN Wait(g.w, [tk EXCEPT !.pc = "chooser", !.k = "deploy", !.names = g.names])
            ELSE deployAfterConfig(g.w, tk, id, out)
    [] tk.kind = "refreshConfig" ->
         Done(getConfig(w, TRUE, out).w, tk, "returned")
    [] tk.kind = "selectEnvironment" ->
         LET g == selectEnvironment(w, out)
         IN IF g.wait
            THEN Wait(g.w, [tk EXCEPT !.pc = "chooser", !.k = "select", !.names = g.names])
            ELSE Done(g.w, tk, "returned")

\* The chooser has returned; pick is the chosen name or Undefined.
afterChooser(w, tk, id, pick, out) ==
  LET w1 == IF IsSet(pick) THEN setActiveEnvironment(w, Val(pick)) ELSE w
      tk1 == [tk EXCEPT !.names = <<>>, !.k = "none"]
  IN CASE tk.k = "select" -> Done(w1, tk1, "returned")
       [] tk.k = "run" -> runCommandSpawn(w1, tk1, id)
       [] tk.k = "deploy" -> deployAfterConfig(w1, tk1, id, out)

\* tmp.dirSync in _generateTempDeployDirectory.
stageCreate(w, tk) ==
  LET name == w.fs.osTmpdir \o <<TmpName(w.fs.made + 1)>>
  IN Wait([w EXCEPT !.this.tempDir = Some([name |-> name]),
                    !.fs.tmpDirs = @ \cup {name},
                    !.fs.made = @ + 1],
          [tk EXCEPT !.pc = "copying", !.tmp = Some(name)])

\* The copy loop: copyFile joins rootPath and toPath, so that the files
\* land under rootPath + tempDir.name.  With tempDir unset the loop throws
\* inside the try and nothing is copied.
stageCopy(w) ==
  IF IsSet(w.this.tempDir)
  THEN [w EXCEPT !.fs.staged = @ \cup {rootPath \o Val(w.this.tempDir).name}]
  ELSE w

\* rimraf(rootPath + '/var') has done its work.
rimrafVar(f) ==
  [f EXCEPT !.staged = {p \in @ : ~StartsWith(p, rootPath \o <<"var">>)},
            !.rimraf = FALSE]

(***************************************************************************)
(* One account listing: a header line and one line per authid, each line   *)
(* with the authid as its first '|'-delimited field, padded or not.        *)
(***************************************************************************)
\* The manifest before any call of a manifest command.
NoCall == [pc |-> "none", isObject |-> FALSE, path |-> "", outcome |-> "none"]

\* file is absent, empty (opened and truncated by a write that has not
\* written yet) or a document; added holds the paths whose add has returned
\* since the last createResetDeploy; notified says that the write of the
\* last add has called back; overlap says that some call was made while a
\* write of an earlier call was still in flight.
AbsentFile == [state |-> "absent", files |-> <<>>, objects |-> <<>>]
EmptyFile == [state |-> "empty", files |-> <<>>, objects |-> <<>>]

\* target is the file a call of addFileToDeploy is made for: the segments
\* of its path below the project root, each a sequence of atoms, with the
\* setting addMatchingJavascriptWhenAddingTypescriptToDeployXML and what
\* the search for a compiled script of the same name finds.
NoTarget == [segments |-> <<>>, addMatching |-> FALSE, matches |-> "none"]

NoManifest ==
  [init |-> "absent", file |-> AbsentFile, pending |-> <<>>, call |-> NoCall,
   calls |-> 0, added |-> {}, notified |-> FALSE, overlap |-> FALSE,
   target |-> NoTarget]

\* The states of gl and av outside their own specifications.
\* For the copy loop of the staging step: unreadable holds the files whose
\* copy fails, staged the copies made, pos the place of the loop in result,
\* stage the place of the deploy ("none", "copying", "copied", "session").
NoGlob ==
  [files |-> {}, dirs |-> {}, patterns |-> <<>>, result |-> <<>>, done |-> FALSE,
   unreadable |-> {}, staged |-> {}, pos |-> 0, stage |-> "none"]
NoArgv == [command |-> "none", args |-> <<>>, argv |-> <<>>, built |-> FALSE]

\* The state of fl outside its own specification, and before the first
\* flow: kind and pc of the flow, the answer to its input box, its
\* sub-flows, the command of its session, and what it has done so far: the
\* sessions started, the folders emptied, whether a prompt was dismissed,
\* the sessions that failed, the runCommand calls that started no session,
\* whether a sub-flow threw, and whether its last step ran cleanup.
NoFlow ==
  [kind |-> "none", pc |-> "idle", answer |-> Undefined, subs |-> <<>>,
   cmd |-> "none", sessions |-> 0, emptied |-> {}, dismissed |-> FALSE,
   failed |-> 0, unrun |-> 0, threw |-> FALSE, cleaned |-> FALSE, flows |-> 0,
   object |-> Undefined, imported |-> Undefined]

MaxRows == 2

\* output is the text the subprocess prints, delivered the length of what
\* has arrived, chunks the number of chunks it arrived in, buf the text
\* the line splitter holds back.
NoSession ==
  [command |-> "none", status |-> "none", emitted |-> <<>>, prompts |-> <<>>,
   stdin |-> <<>>, acc |-> <<>>, result |-> Undefined,
   output |-> <<>>, delivered |-> 0, chunks |-> 0, buf |-> <<>>]

Spaces(n) == [i \in 1..n |-> " "]

Headers == {<<"H">>, <<"H", " ", "|", " ", "H">>}

Rows ==
  [lead : 0..1, authid : {<<"a">>, <<"b">>, <<"a", "b">>}, trail : 0..1,
   rest : {<<>>, <<"|", "x">>, <<"|", " ", "x", " ", "|", "x">>}]

RowText(r) == Spaces(r.lead) \o r.authid \o Spaces(r.trail) \o r.rest

RECURSIVE RowsText(_)
RowsText(rows) ==
  IF rows = <<>> THEN <<>>
  ELSE <<"\n">> \o RowText(Head(rows)) \o RowsText(Tail(rows))

\* The text sdfcli prints for a header and rows, with or without a newline
\* after the last line.
ListingText(header, rows, newline) ==
  header \o RowsText(rows) \o (IF newline THEN <<"\n">> ELSE <<>>)

NoListing == [rows |-> <<>>, text |-> <<>>, loaded |-> FALSE]

InitListing ==
  /\ this \in {o \in InitThis : o.sdfCliIsInstalled}
  /\ fs = [osTmpdir |-> <<"tmp">>, tmpDirs |-> {}, staged |-> {},
           rimraf |-> FALSE, made |-> 0]
  /\ task = [t \in Tasks |-> IdleTask]
  /\ shown = {}
  /\ picked = Undefined
  /\ returned = NoReturn
  /\ invoked = 0
  /\ sess = NoSession
  /\ listed = FALSE /\ mf = NoManifest /\ gl = NoGlob /\ av = NoArgv
  /\ boot = "done" /\ fl = NoFlow
  /\ \E n \in 0..MaxRows, header \in Headers, newline \in BOOLEAN :
       \E rows \in [1..n -> Rows] :
         listing = [rows |-> rows, text |-> ListingText(header, rows, newline),
                    loaded |-> FALSE]

\* getConfig reads the listing.
ListingLoad(force) ==
  /\ ~listing.loaded
  /\ LET g == getConfig(World, force, listing.text)
     IN /\ this' = g.w.this
        /\ shown' = g.w.shown
        /\ listed' = g.w.listed
  /\ listing' = [listing EXCEPT !.loaded = TRUE]
  /\ UNCHANGED <<fs, task, picked, returned, invoked, sess, mf, gl, av, boot, fl>>

NextListing == \E force \in BOOLEAN : ListingLoad(force)

SpecListing == InitListing /\ [][NextListing]_vars

(***************************************************************************)
(* The manifest deploy.xml.  fs.writeFile is called without waiting for    *)
(* it: a write is in flight from the call until its callback, first        *)
(* queued, then with the file opened and truncated, then written.          *)
(***************************************************************************)
MaxCalls == 3

\* The document <deploy></deploy>.
DefaultXml == [state |-> "doc", files |-> <<>>, objects |-> <<>>]

AlreadyExistsMessage(isObject) ==
  IF isObject THEN "Object already exists in deploy.xml."
  ELSE "File already exists in deploy.xml."

AddedMessage(isObject) ==
  IF isObject THEN "Added  object to deploy.xml." ELSE "Added  file to deploy.xml."

ResetMessage == "Reset deploy.xml."

\* The files a user adds, as relativePath, with the list they belong to.
DeployPaths ==
  {[isObject |-> FALSE, path |-> "~/FileCabinet/SuiteScripts/foo.js"],
   [isObject |-> FALSE, path |-> "~/FileCabinet/SuiteScripts/bar.js"],
   [isObject |-> TRUE, path |-> "~/Objects/custrecord.xml"]}

\* fs.writeFile(deployPath, doc, callback) has been called.
writeFile(m, doc, message) ==
  [m EXCEPT !.pending = Append(@, [doc |-> doc, message |-> message, opened |-> FALSE])]

\* setDefaultDeployXml: the write of the default document, not waited for.
setDefaultDeployXml(m) == writeFile(m, DefaultXml, "")

\* _.includes(elements, relativePath)
IncludesPath(elements, path) == \E i \in 1..Len(elements) : elements[i] = path

\* The xmlPath list of a document.
Elements(doc, isObject) == IF isObject THEN doc.objects ELSE doc.files

\* An add that pushes the path without looking for it.
addToDocumentAlways(m) ==
  LET c == m.call
      elements == Elements(m.file, c.isObject)
      newDoc == IF c.isObject
                THEN [m.file EXCEPT !.objects = Append(elements, c.path)]
                ELSE [m.file EXCEPT !.files = Append(elements, c.path)]
  IN [m |-> [writeFile(m, newDoc, AddedMessage(c.isObject))
               EXCEPT !.call.pc = "done", !.call.outcome = "returned",
                      !.added = @ \cup {<<c.isObject, c.path>>},
                      !.notified = FALSE],
      shown |-> {}]

\* addFileToDeploy from the document it has read to its return.
addToDocument(m) ==
  LET c == m.call
      elements == Elements(m.file, c.isObject)
      newDoc == IF c.isObject
                THEN [m.file EXCEPT !.objects = Append(elements, c.path)]
                ELSE [m.file EXCEPT !.files = Append(elements, c.path)]
  IN IF IncludesPath(elements, c.path)
     THEN [m |-> [m EXCEPT !.call.pc = "done", !.call.outcome = "exists",
                           !.added = @ \cup {<<c.isObject, c.path>>}],
           shown |-> {AlreadyExistsMessage(c.isObject)}]
     ELSE [m |-> [writeFile(m, newDoc, AddedMessage(c.isObject))
                    EXCEPT !.call.pc = "done", !.call.outcome = "returned",
                           !.added = @ \cup {<<c.isObject, c.path>>},
                           !.notified = FALSE],
           shown |-> {}]

\* openFile and parseXml: a file that is absent makes readFile reject, an
\* empty one parses to null and buildObject throws on it.
readManifest(m) ==
  IF m.file.state \in {"absent", "empty"}
  THEN [m |-> [m EXCEPT !.call.pc = "done", !.call.outcome = "threw"], shown |-> {}]
  ELSE addToDocument(m)

InitManifest ==
  /\ this \in {o \in InitThis : o.sdfCliIsInstalled}
  /\ fs = [osTmpdir |-> <<"tmp">>, tmpDirs |-> {}, staged |-> {},
           rimraf |-> FALSE, made |-> 0]
  /\ task = [t \in Tasks |-> IdleTask]
  /\ shown = {}
  /\ picked = Undefined
  /\ returned = NoReturn
  /\ invoked = 0
  /\ sess = NoSession
  /\ listing = NoListing
  /\ listed = FALSE /\ gl = NoGlob /\ av = NoArgv
  /\ boot = "done" /\ fl = NoFlow
  /\ mf \in {NoManifest, [NoManifest EXCEPT !.init = "default", !.file = DefaultXml]}

MfFrame ==
  UNCHANGED <<this, fs, task, picked, returned, invoked, sess, listing, listed, gl, av, boot, fl>>

NoCallInFlight == mf.call.pc \in {"none", "done"}

\* createResetDeploy, after its getConfig.
MfReset ==
  /\ NoCallInFlight
  /\ mf.calls < MaxCalls
  /\ mf' = [setDefaultDeployXml(mf) EXCEPT !.calls = @ + 1, !.added = {},
                                           !.overlap = @ \/ mf.pending # <<>>,
                                           !.call = [NoCall EXCEPT !.pc = "done",
                                                                   !.outcome = "reset"]]
  /\ shown' = {ResetMessage}
  /\ MfFrame

\* addFileToDeploy up to its fileExists.
MfAdd(f) ==
  /\ NoCallInFlight
  /\ mf.calls < MaxCalls
  /\ mf' = [mf EXCEPT !.calls = @ + 1,
                      !.overlap = @ \/ mf.pending # <<>>,
                      !.call = [pc |-> "exists", isObject |-> f.isObject,
                                path |-> f.path, outcome |-> "none"]]
  /\ shown' = {}
  /\ MfFrame

\* fileExists answers; addFileToDeploy goes on to openFile.
MfExists ==
  /\ mf.call.pc = "exists"
  /\ mf' = [(IF mf.file.state = "absent" THEN setDefaultDeployXml(mf) ELSE mf)
              EXCEPT !.call.pc = "read"]
  /\ shown' = {}
  /\ MfFrame

\* readFile answers; addFileToDeploy runs to its end.
MfRead ==
  /\ mf.call.pc = "read"
  /\ LET r == readManifest(mf)
     IN mf' = r.m /\ shown' = r.shown
  /\ MfFrame

\* A write in flight opens the file: it is created or truncated.
MfWriteOpen(i) ==
  /\ i \in 1..Len(mf.pending)
  /\ ~mf.pending[i].opened
  /\ mf' = [mf EXCEPT !.pending[i].opened = TRUE, !.file = EmptyFile]
  /\ shown' = {}
  /\ MfFrame

\* A write in flight writes its document and calls back.
MfWriteDone(i) ==
  /\ i \in 1..Len(mf.pending)
  /\ mf.pending[i].opened
  /\ LET wr == mf.pending[i]
     IN /\ mf' = [mf EXCEPT
                   !.file = wr.doc,
                   !.pending = SubSeq(@, 1, i - 1) \o SubSeq(@, i + 1, Len(@)),
                   !.notified = @ \/ (wr.message # "" /\ i = Len(mf.pending))]
        /\ shown' = IF wr.message = "" THEN {} ELSE {wr.message}
  /\ MfFrame

NextManifest ==
  \/ MfReset
  \/ \E f \in DeployPaths : MfAdd(f)
  \/ MfExists
  \/ MfRead
  \/ \E i \in 1..(2 * MaxCalls) : MfWriteOpen(i)
  \/ \E i \in 1..(2 * MaxCalls) : MfWriteDone(i)

SpecManifest == InitManifest /\ [][NextManifest]_vars

(***************************************************************************)
(* The extension where sdfcli is missing.  sdfCliIsInstalled is true from  *)
(* construction until checkSdfCliIsInstalled has ended, and commands run   *)
(* in between; rootPath is set by a getConfig that passes its first test.  *)
(***************************************************************************)
NotInPathMessage == "'sdfcli' not found in path! Check repo for install directions."
BackedUpMessage == "Backed up deploy.xml"

\* path.join(this.rootPath, ...) throws a TypeError when rootPath is undefined.
pathJoinThrows(o) == ~IsSet(o.rootPath)

\* createResetDeploy, to its return or to the TypeError.
createResetDeploy(w, m) ==
  LET g == getConfig(w, FALSE, ListingNone)
  IN IF pathJoinThrows(g.w.this)
     THEN [w |-> g.w, m |-> m]
     ELSE [w |-> Note(g.w, ResetMessage), m |-> setDefaultDeployXml(m)]

\* addFileToDeploy up to its fileExists, or to the TypeError.
addFileToDeploy(w, m, f) ==
  LET g == getConfig(w, FALSE, ListingNone)
  IN IF pathJoinThrows(g.w.this)
     THEN [w |-> g.w, m |-> m]
     ELSE [w |-> g.w,
           m |-> [m EXCEPT !.call = [pc |-> "exists", isObject |-> f.isObject,
                                     path |-> f.path, outcome |-> "none"]]]

\* backupRestoreDeploy on deploy.xml: the file is renamed to
\* PREFIX.deploy.xml, and with auto a new one is written.
backupRestoreDeploy(w, m, auto) ==
  LET g == getConfig(w, FALSE, ListingNone)
  IN IF pathJoinThrows(g.w.this) \/ m.file.state = "absent"
     THEN [w |-> g.w, m |-> m]
     ELSE LET renamed == [w |-> Note(g.w, BackedUpMessage),
                          m |-> [m EXCEPT !.file = AbsentFile]]
          IN IF auto THEN createResetDeploy(renamed.w, renamed.m) ELSE renamed

\* removeFolders: rimraf runs only with a registry.
removeFolders(w, m) ==
  LET g == getConfig(w, FALSE, ListingNone)
  IN [w |-> g.w, m |-> m, rimraf |-> IsSet(g.w.this.sdfConfig)]

InitMissing ==
  /\ this \in {o \in InitThis : o.sdfCliIsInstalled}
  /\ fs = [osTmpdir |-> <<"tmp">>, tmpDirs |-> {}, staged |-> {},
           rimraf |-> FALSE, made |-> 0]
  /\ task = [t \in Tasks |-> IdleTask]
  /\ shown = {}
  /\ picked = Undefined
  /\ returned = NoReturn
  /\ invoked = 0
  /\ sess = NoSession
  /\ listing = NoListing
  /\ listed = FALSE /\ gl = NoGlob /\ av = NoArgv
  /\ mf \in {NoManifest, [NoManifest EXCEPT !.init = "default", !.file = DefaultXml]}
  /\ boot = "checking" /\ fl = NoFlow

MissingFrame ==
  UNCHANGED <<fs, picked, invoked, sess, listing, gl, av, fl>>

\* A command is invoked before the check has ended: its getConfig sets
\* rootPath and invokes the account listing, which throws.
MissingEarly ==
  /\ boot = "checking"
  /\ this' = [this EXCEPT !.rootPath = Some(rootPath)]
  /\ listed' = TRUE
  /\ shown' = {}
  /\ UNCHANGED <<task, returned, mf, boot>>
  /\ MissingFrame

\* checkSdfCliIsInstalled ends: spawn has failed with ENOENT.
CheckEnds ==
  /\ boot = "checking"
  /\ boot' = "missing"
  /\ this' = [this EXCEPT !.sdfCliIsInstalled = FALSE]
  /\ shown' = {NotInPathMessage}
  /\ listed' = FALSE
  /\ UNCHANGED <<task, returned, mf>>
  /\ MissingFrame

\* The step of an extension command ends as r says.
MissingApply(r) ==
  /\ this' = r.w.this
  /\ shown' = r.w.shown
  /\ listed' = r.w.listed
  /\ mf' = [r.m EXCEPT !.calls = @ + 1]
  /\ UNCHANGED <<task, returned, boot>>
  /\ MissingFrame

MissingCommand ==
  /\ boot = "missing"
  /\ NoCallInFlight
  /\ mf.calls < MaxCalls

\* A CLI command, refreshConfig or selectEnvironment.
MissingCli(kind) ==
  /\ MissingCommand
  /\ LET r == invoke(World, [IdleTask EXCEPT !.kind = kind], 1, ListingA)
     IN /\ this' = r.w.this
        /\ shown' = r.w.shown
        /\ listed' = r.w.listed
        /\ task' = [task EXCEPT ![1] = r.task]
        /\ returned' = r.ret
  /\ mf' = [mf EXCEPT !.calls = @ + 1]
  /\ UNCHANGED boot
  /\ MissingFrame

MissingCreateResetDeploy ==
  MissingCommand /\ MissingApply(createResetDeploy(World, mf))

MissingAddFileToDeploy(f) ==
  MissingCommand /\ MissingApply(addFileToDeploy(World, mf, f))

MissingBackupRestoreDeploy(auto) ==
  MissingCommand /\ MissingApply(backupRestoreDeploy(World, mf, auto))

MissingRemoveFolders ==
  MissingCommand /\ MissingApply(removeFolders(World, mf))

\* The file steps of addFileToDeploy and of the writes in flight.
MissingFile ==
  /\ boot = "missing"
  /\ \/ MfExists
     \/ MfRead
     \/ \E i \in 1..(2 * MaxCalls) : MfWriteOpen(i)
     \/ \E i \in 1..(2 * MaxCalls) : MfWriteDone(i)

NextMissing ==
  \/ MissingEarly
  \/ CheckEnds
  \/ \E kind \in Kinds : MissingCli(kind)
  \/ MissingCreateResetDeploy
  \/ \E f \in DeployPaths : MissingAddFileToDeploy(f)
  \/ \E auto \in BOOLEAN : MissingBackupRestoreDeploy(auto)
  \/ MissingRemoveFolders
  \/ MissingFile

SpecMissing == InitMissing /\ [][NextMissing]_vars

(***************************************************************************)
(* One argument vector: runCommand from its flags, the active environment, *)
(* the staging directory and the arguments of its caller.                  *)
(***************************************************************************)
MaxArgs == 2

\* Arguments as the commands write them: single tokens, and templates
\* such as `-pd ${outputPath}` that hold spaces.
ArgTexts ==
  {<<"-all">>, <<"-pd", " ", "x">>, <<"-t", " ", "y">>, <<"x", " ", " ", "y">>}

InitArgv ==
  /\ this \in {[o EXCEPT !.sdfConfig = Some([environments |-> <<[authid |-> a]>>]),
                         !.activeEnvironment = Some([authid |-> a]),
                         !.addDefaultParameters = d,
                         !.doAddProjectParameter = p,
                         !.tempDir = td] :
                 o \in {x \in InitThis : x.sdfCliIsInstalled},
                 a \in {<<"a">>, <<"b">>}, d \in BOOLEAN, p \in BOOLEAN,
                 td \in {Undefined, Some([name |-> <<"tmp", TmpName(1)>>])}}
  /\ fs = [osTmpdir |-> <<"tmp">>, tmpDirs |-> {}, staged |-> {},
           rimraf |-> FALSE, made |-> 0]
  /\ task = [t \in Tasks |-> IdleTask]
  /\ shown = {}
  /\ picked = Undefined
  /\ returned = NoReturn
  /\ invoked = 0
  /\ sess = NoSession
  /\ listing = NoListing
  /\ listed = FALSE /\ mf = NoManifest /\ gl = NoGlob
  /\ boot = "done" /\ fl = NoFlow
  /\ \E c \in {"Validate", "CreateProject"}, n \in 0..MaxArgs :
       \E args \in [1..n -> ArgTexts] :
         av = [NoArgv EXCEPT !.command = c, !.args = args]

\* runCommand builds the commandArray.
ArgvBuild ==
  /\ ~av.built
  /\ av' = [av EXCEPT !.argv = commandArray(av.command, this, workPathOf(this), av.args),
                      !.built = TRUE]
  /\ UNCHANGED <<this, fs, task, shown, picked, returned, invoked, sess, listing,
                 listed, mf, gl, boot, fl>>

NextArgv == ArgvBuild

SpecArgv == InitArgv /\ [][NextArgv]_vars

(***************************************************************************)
(* One Process Session: the pipeline that runCommand hangs on the lines    *)
(* of the subprocess (handleStdIn, handleStdOut, filter, mapCommandOutput, *)
(* reduce).                                                                *)
(***************************************************************************)
\* The prompts of handleStdIn.  The production warning ends in the phrase
\* 'enter YES to continue', which is a prompt of its own.
ProductionLead == "WARNING! You are deploying to a Production account, "
EnterYes == "enter YES to continue"
ProductionPrompt == <<ProductionLead, EnterYes>>
YesPrompts ==
  {<<"Type YES to continue">>, <<EnterYes>>,
   <<"Type YES to update the manifest file">>, <<"Proceed with deploy?">>,
   <<"Type Yes (Y) to continue.">>}

\* The boilerplate prefixes that runCommand's filter drops.
NoisePrefixes ==
  {<<"[INFO]">>, <<"SuiteCloud Development Framework CLI">>, <<"Done.">>, <<"Using ">>}

CompleteMessage == "Installation of deployment was completed."
NoRecordMessage == "Custom record does not exist for updating. Please Import Object first."

\* handleStdIn with the unconditional prompts tested first.
handleStdInNoPriority(line) ==
  IF \E p \in YesPrompts : Includes(line, p) THEN "yes"
  ELSE IF Includes(line, ProductionPrompt) THEN "ask"
  ELSE "none"

\* handleStdIn up to its await: open the input box, write YES, or nothing.
handleStdIn(line) ==
  IF Includes(line, ProductionPrompt) THEN "ask"
  ELSE IF \E p \in YesPrompts : Includes(line, p) THEN "yes"
  ELSE "none"

\* handleStdIn comparing the answer without regard to case.
productionAnswerAnyCase(answer) ==
  IF answer \in {Some("Deploy"), Some("deploy")} THEN "YES\n" ELSE "NO\n"

\* handleStdIn after the input box: what goes to stdin for the answer.
productionAnswer(answer) ==
  IF answer = Some("Deploy") THEN "YES\n" ELSE "NO\n"

\* The notifications of handleStdOut; the 'does not exist.' case has no
\* break and runs on into the next one.
handleStdOut(line) ==
  IF Includes(line, <<"That record ", "does not exist.">>) THEN {}
  ELSE IF Includes(line, <<"does not exist.">>) THEN {NoRecordMessage, CompleteMessage}
  ELSE IF Includes(line, <<"Installation COMPLETE">>) THEN {CompleteMessage}
  ELSE {}

\* A filter that drops the empty lines only.
keepLineNonEmpty(line) ==
  line # <<>>

\* The predicate of runCommand's filter.
keepLine(line) ==
  ~(line = <<>> \/ \E p \in NoisePrefixes : StartsWith(line, p))

mapCommandOutput(command, line) ==
  IF command = "ListObjects"
  THEN IF Includes(line, <<":">>) THEN Split(line, ":")[2] ELSE line
  ELSE line

\* One line through the pipeline; i is its place in the output.
pipeLine(ss, line) ==
  LET i == Len(ss.emitted) + 1
      act == handleStdIn(line)
  IN [ss EXCEPT
        !.emitted = Append(@, line),
        !.prompts = IF act = "ask"
                    THEN Append(@, [line |-> i, open |-> TRUE, answer |-> Undefined])
                    ELSE @,
        !.stdin = IF act = "yes" THEN Append(@, [line |-> i, text |-> "YES\n"]) ELSE @,
        !.acc = IF keepLine(line)
                THEN @ \o <<mapCommandOutput(ss.command, line)>>
                ELSE @]

\* The input box of prompt n has returned answer (Undefined: dismissed).
answerPrompt(ss, n, answer) ==
  [ss EXCEPT
     !.prompts[n] = [@ EXCEPT !.open = FALSE, !.answer = answer],
     !.stdin = Append(@, [line |-> ss.prompts[n].line, text |-> productionAnswer(answer)])]

\* The lines a subprocess prints, as the line splitter of runCommand hands
\* them on.
OutputLines ==
  {<<>>,
   <<"x">>,
   <<"y">>,
   ProductionPrompt,
   <<EnterYes>>,
   <<"x", "Type YES to continue">>,
   <<"Proceed with deploy?", EnterYes>>,
   <<"[INFO]", "x">>,
   <<"x", "[INFO]">>,
   <<"[INFO]", ProductionLead, EnterYes>>,
   <<"Done.">>,
   <<"Using ", "x">>,
   <<"SuiteCloud Development Framework CLI">>,
   <<"x", ":", "y">>,
   <<":", "y">>,
   <<"x", ":", "y", ":", "x">>,
   <<"Installation COMPLETE">>,
   <<"x", "does not exist.">>,
   <<"That record ", "does not exist.">>}

\* What the user may type into the input box.
Answers == {Some("Deploy"), Some("deploy"), Some("YES"), Some(""), Undefined}

Commands == {"ListObjects", "Validate"}

MaxLines == 2

InitSession ==
  /\ this \in {o \in InitThis : o.sdfCliIsInstalled}
  /\ fs = [osTmpdir |-> <<"tmp">>, tmpDirs |-> {}, staged |-> {},
           rimraf |-> FALSE, made |-> 0]
  /\ task = [t \in Tasks |-> IdleTask]
  /\ shown = {}
  /\ picked = Undefined
  /\ returned = NoReturn
  /\ invoked = 0
  /\ sess \in {[NoSession EXCEPT !.command = c, !.status = "running"] : c \in Commands}
  /\ listing = NoListing
  /\ listed = FALSE /\ mf = NoManifest /\ gl = NoGlob /\ av = NoArgv
  /\ boot = "done" /\ fl = NoFlow

SessLine(line) ==
  /\ sess.status = "running"
  /\ Len(sess.emitted) < MaxLines
  /\ sess' = pipeLine(sess, line)
  /\ shown' = handleStdOut(line)
  /\ listed' = FALSE
  /\ UNCHANGED <<this, fs, task, picked, returned, invoked, listing, mf, gl, av, boot, fl>>

SessAnswer(n, answer) ==
  /\ n \in 1..Len(sess.prompts)
  /\ sess.prompts[n].open
  /\ sess' = answerPrompt(sess, n, answer)
  /\ shown' = {}
  /\ listed' = FALSE
  /\ UNCHANGED <<this, fs, task, picked, returned, invoked, listing, mf, gl, av, boot, fl>>

\* The subprocess exits with code 0: the promise resolves to the lines
\* accumulated.
SessComplete ==
  /\ sess.status = "running"
  /\ sess' = [sess EXCEPT !.status = "done", !.result = Some(sess.acc)]
  /\ shown' = {}
  /\ listed' = FALSE
  /\ UNCHANGED <<this, fs, task, picked, returned, invoked, listing, mf, gl, av, boot, fl>>

\* The subprocess fails: the catch handler yields undefined.
SessError ==
  /\ sess.status = "running"
  /\ sess' = [sess EXCEPT !.status = "failed", !.result = Undefined]
  /\ shown' = {}
  /\ listed' = FALSE
  /\ UNCHANGED <<this, fs, task, picked, returned, invoked, listing, mf, gl, av, boot, fl>>

NextSession ==
  \/ \E line \in OutputLines : SessLine(line)
  \/ \E n \in 1..MaxLines, answer \in Answers : SessAnswer(n, answer)
  \/ SessComplete
  \/ SessError

SpecSession == InitSession /\ [][NextSession]_vars

(***************************************************************************)
(* The line splitter of runCommand: the output of the subprocess arrives   *)
(* in chunks, cut anywhere, and goes on as lines.                          *)
(***************************************************************************)
MaxChars == 4

OutputChars == {"x", "y", "\n"}

\* A splitter that hands on every piece of the chunk at once.
splitChunkEager(buf, value) ==
  [lines |-> Split(buf \o value, "\n"), buf |-> <<>>]

\* The subscriber of streamWrapper on one chunk: the lines it hands on and
\* the text it keeps.
splitChunk(buf, value) ==
  LET lines == Split(buf \o value, "\n")
  IN [lines |-> SubSeq(lines, 1, Len(lines) - 1), buf |-> lines[Len(lines)]]

\* The lines of one chunk through the pipeline.
RECURSIVE pipeLines(_, _)
pipeLines(ss, lines) ==
  IF lines = <<>> THEN ss ELSE pipeLines(pipeLine(ss, Head(lines)), Tail(lines))

\* A stream that hands on the text it still holds when it completes.
streamCompleteFlush(ss) ==
  LET flushed == IF ss.buf # <<>> THEN pipeLine(ss, ss.buf) ELSE ss
  IN [flushed EXCEPT !.status = "done", !.result = Some(flushed.acc), !.buf = <<>>]

\* The stream of the subprocess completes: observer.complete() and nothing
\* else, the promise resolves to the lines accumulated.
streamComplete(ss) ==
  [ss EXCEPT !.status = "done", !.result = Some(ss.acc)]

InitChunks ==
  /\ this \in {o \in InitThis : o.sdfCliIsInstalled}
  /\ fs = [osTmpdir |-> <<"tmp">>, tmpDirs |-> {}, staged |-> {},
           rimraf |-> FALSE, made |-> 0]
  /\ task = [t \in Tasks |-> IdleTask]
  /\ shown = {}
  /\ picked = Undefined
  /\ returned = NoReturn
  /\ invoked = 0
  /\ \E n \in 0..MaxChars :
       \E output \in [1..n -> OutputChars] :
         sess = [NoSession EXCEPT !.command = "Validate", !.status = "running",
                                  !.output = output]
  /\ listing = NoListing
  /\ listed = FALSE /\ mf = NoManifest /\ gl = NoGlob /\ av = NoArgv
  /\ boot = "done" /\ fl = NoFlow

ChunkFrame ==
  UNCHANGED <<this, fs, task, picked, returned, invoked, listing, listed,
              mf, gl, av, boot, fl>>

\* The next n characters of the output arrive as one chunk.
ChunkDeliver(n) ==
  /\ sess.status = "running"
  /\ sess.delivered + n <= Len(sess.output)
  /\ LET value == SubSeq(sess.output, sess.delivered + 1, sess.delivered + n)
         r == splitChunk(sess.buf, value)
     IN /\ sess' = [pipeLines(sess, r.lines) EXCEPT !.delivered = @ + n,
                                                    !.chunks = @ + 1,
                                                    !.buf = r.buf]
        /\ shown' = UNION {handleStdOut(r.lines[i]) : i \in 1..Len(r.lines)}
  /\ ChunkFrame

\* The subprocess exits with code 0 after its last chunk: the stream
\* completes and the promise resolves to the lines accumulated.
ChunkClose ==
  /\ sess.status = "running"
  /\ sess.delivered = Len(sess.output)
  /\ sess' = streamComplete(sess)
  /\ shown' = {}
  /\ ChunkFrame

NextChunks ==
  \/ \E n \in 1..MaxChars : ChunkDeliver(n)
  \/ ChunkClose

SpecChunks == InitChunks /\ [][NextChunks]_vars

(***************************************************************************)
(* The specification.                                                      *)
(***************************************************************************)
Init ==
  /\ this \in InitThis
  /\ fs \in [osTmpdir : OsTmpdirs, tmpDirs : {{}}, staged : {{}},
             rimraf : {FALSE}, made : {0}]
  /\ task = [t \in Tasks |-> IdleTask]
  /\ shown = {}
  /\ picked = Undefined
  /\ returned = NoReturn
  /\ invoked = 0
  /\ sess = NoSession
  /\ listing = NoListing
  /\ listed = FALSE /\ mf = NoManifest /\ gl = NoGlob /\ av = NoArgv
  /\ boot = "done" /\ fl = NoFlow

\* The step of task t ends as r says; pick is the chooser's answer, if the
\* step was one.
Apply(t, r, pick) ==
  /\ this' = r.w.this
  /\ fs' = r.w.fs
  /\ shown' = r.w.shown
  /\ task' = [task EXCEPT ![t] = r.task]
  /\ returned' = r.ret
  /\ picked' = pick
  /\ listed' = r.w.listed
  /\ UNCHANGED <<sess, listing, mf, gl, av, boot, fl>>

\* The tmp names still to hand out suffice for the deploys in flight.
TmpLeft ==
  fs.made + Cardinality({t \in Tasks : task[t].pc = "staging"}) < MaxTmp

\* The user invokes a command; it takes the first free slot.
Invoke(t, kind, quick, out) ==
  /\ task[t].pc = "idle"
  /\ \A u \in 1..(t - 1) : task[u].pc # "idle"
  /\ invoked < MaxInvocations
  /\ quick => kind = "deploy" /\ TmpLeft
  /\ invoked' = invoked + 1
  /\ Apply(t, invoke(World, [IdleTask EXCEPT !.kind = kind, !.quick = quick], t, out),
           Undefined)

\* The user answers the chooser of selectEnvironment, or dismisses it.
Choose(t, pick, out) ==
  /\ task[t].pc = "chooser"
  /\ IsSet(pick) => \E i \in 1..Len(task[t].names) : task[t].names[i] = Val(pick)
  /\ Apply(t, afterChooser(World, task[t], t, pick, out), pick)
  /\ UNCHANGED invoked

StageCreate(t) ==
  /\ task[t].pc = "staging"
  /\ Apply(t, stageCreate(World, task[t]), Undefined)
  /\ UNCHANGED invoked

StageCopied(t, out) ==
  /\ task[t].pc = "copying"
  /\ Apply(t, runCommand(stageCopy(World), task[t], t, out), Undefined)
  /\ UNCHANGED invoked

\* The subprocess has exited with code 0: the stream completes.
ExitOk(t) ==
  /\ task[t].pc = "running"
  /\ Apply(t, runCommandExit(World, task[t], "ok"), Undefined)
  /\ UNCHANGED invoked

\* The subprocess has failed: the catch handler runs cleanup, then
\* runCommand runs it again.
ExitFail(t) ==
  /\ task[t].pc = "running"
  /\ Apply(t, runCommandExit(World, task[t], "failed"), Undefined)
  /\ UNCHANGED invoked

RimrafDone ==
  /\ fs.rimraf
  /\ fs' = rimrafVar(fs)
  /\ shown' = {}
  /\ picked' = Undefined
  /\ returned' = NoReturn
  /\ listed' = FALSE
  /\ UNCHANGED <<this, task, invoked, sess, listing, mf, gl, av, boot, fl>>

\* The interval timer r fires.
SpinnerTick(r) ==
  /\ r \in this.timers
  /\ this' = spinnerTick(this, r)
  /\ shown' = {}
  /\ picked' = Undefined
  /\ returned' = NoReturn
  /\ listed' = FALSE
  /\ UNCHANGED <<fs, task, invoked, sess, listing, mf, gl, av, boot, fl>>

Authids == {<<"a">>, <<"b">>}

Next ==
  \/ \E t \in Tasks, kind \in Kinds, quick \in BOOLEAN, out \in Listings :
       Invoke(t, kind, quick, out)
  \/ \E t \in Tasks, pick \in {Undefined} \cup {Some(a) : a \in Authids}, out \in Listings :
       Choose(t, pick, out)
  \/ \E t \in Tasks : StageCreate(t)
  \/ \E t \in Tasks, out \in Listings : StageCopied(t, out)
  \/ \E t \in Tasks : ExitOk(t)
  \/ \E t \in Tasks : ExitFail(t)
  \/ RimrafDone

Spec == Init /\ [][Next]_vars

(***************************************************************************)
(* The status text: the commands without a staging step, and the interval *)
(* timers of showStatus.                                                   *)
(***************************************************************************)
NextStatus ==
  \/ \E t \in Tasks, kind \in Kinds, out \in Listings :
       Invoke(t, kind, FALSE, out)
  \/ \E t \in Tasks, pick \in {Undefined} \cup {Some(a) : a \in Authids}, out \in Listings :
       Choose(t, pick, out)
  \/ \E t \in Tasks : ExitOk(t)
  \/ \E t \in Tasks : ExitFail(t)
  \/ \E r \in this.timers : SpinnerTick(r)

SpecStatus == Init /\ [][NextStatus]_vars

(***************************************************************************)
(* Properties of the command orchestration (Spec).                         *)
(***************************************************************************)
FlagsAtDefaults ==
  /\ this.doAddProjectParameter
  /\ this.addDefaultParameters
  /\ this.doShowOutput
  /\ ~this.doReturnData

\* The directory tmp created for the command that returned, and the tree
\* under the project root that its files were copied into, are both gone.
StagingRemoved ==
  IsSet(returned.tmp) =>
    /\ Val(returned.tmp) \notin fs.tmpDirs
    /\ rootPath \o Val(returned.tmp) \notin fs.staged

\* C1: when the Process Session of a command has failed, then as runCommand
\* returns the staging directory, if one was created, is removed and no
\* longer recorded in the session state, and the four per-command flags are
\* at their defaults.
C1_FailedSessionCleansUp ==
  returned.outcome = "failed" =>
    FlagsAtDefaults /\ ~IsSet(this.tempDir) /\ StagingRemoved

\* C2: when a deploy with scoped-deploy enabled has returned, on whatever
\* path, no staging directory remains: the staged copy is gone from the
\* filesystem and no staging handle is left in the session state.
C2_ScopedDeployLeavesNoStaging ==
  returned.kind = "deploy" /\ returned.quick =>
    ~IsSet(this.tempDir) /\ StagingRemoved

\* C3: at any moment at most one Process Session is active.
C3_OneSessionAtATime ==
  Cardinality({t \in Tasks : task[t].pc = "running"}) <= 1

\* C9: a registry load that finds zero data rows reports 'no authids' and
\* leaves the registry unset, also when it was a forced refresh that found
\* an earlier registry.
C9_NoAuthidsLeavesRegistryUnset ==
  NoAuthidsMessage \in shown => ~IsSet(this.sdfConfig)

\* The step invokes the command selectEnvironment in slot t.
SelectInvoked(t) ==
  /\ task[t].pc = "idle"
  /\ invoked' = invoked + 1
  /\ task'[t].kind = "selectEnvironment" \/ returned'.kind = "selectEnvironment"

\* C10: invoked with a registry of exactly one environment, selectEnvironment
\* makes it the active environment without showing the chooser and sets the
\* status text to 'SDF (<authid>)'; with more than one environment the
\* chooser is shown, and the active environment becomes the chosen one.
C10_SelectEnvironment ==
  [][/\ \A t \in Tasks :
          SelectInvoked(t) /\ IsSet(this.sdfConfig) =>
            LET envs == Val(this.sdfConfig).environments
            IN /\ Len(envs) = 1 =>
                    /\ task'[t].pc = "idle"
                    /\ this'.activeEnvironment = Some(envs[1])
                    /\ this'.statusText = <<"SDF (">> \o envs[1].authid \o <<")">>
               /\ Len(envs) > 1 =>
                    /\ task'[t].pc = "chooser"
                    /\ {task'[t].names[i] : i \in 1..Len(task'[t].names)}
                         = {envs[i].authid : i \in 1..Len(envs)}
     /\ IsSet(picked') =>
          this'.activeEnvironment = Some([authid |-> Val(picked')])
    ]_vars

\* selectEnvironment has just selected the only environment, a.
C10_Witness ==
  /\ returned.kind = "selectEnvironment"
  /\ OnlyOneMessage \in shown
  /\ this.activeEnvironment = Some([authid |-> <<"a">>])
  /\ this.statusText = <<"SDF (", "a", ")">>

\* The authids of the registry of object o.
RegistryAuthids(o) ==
  IF IsSet(o.sdfConfig)
  THEN {Val(o.sdfConfig).environments[i].authid :
          i \in 1..Len(Val(o.sdfConfig).environments)}
  ELSE {}

\* C14: whenever a Process Session is started, the authid of the active
\* environment is one of the authids of the registry as last loaded.
C14_SessionUsesListedEnvironment ==
  [][\A t \in Tasks :
       task[t].pc # "running" /\ task'[t].pc = "running" =>
         /\ IsSet(this'.activeEnvironment)
         /\ Val(this'.activeEnvironment).authid \in RegistryAuthids(this')
    ]_vars

\* C15: when the subprocess of a command has failed, the promise that
\* runCommand returned is rejected, cleanup has run, and no second
\* subprocess was spawned for the command.
C15_FailedSessionRejects ==
  returned.outcome = "failed" =>
    /\ returned.promise = "rejected"
    /\ FlagsAtDefaults /\ ~IsSet(this.tempDir)
    /\ returned.spawns = 1

\* The step is an invocation of refreshConfig.
RefreshInvoked ==
  /\ invoked' = invoked + 1
  /\ returned'.kind = "refreshConfig"

\* C17: a registry load without force does not invoke the account listing
\* when a registry exists, and leaves the registry unchanged; refreshConfig
\* always invokes the listing, also when a registry exists.
C17_LoadOnlyWhenForcedOrAbsent ==
  [][/\ IsSet(this.sdfConfig) /\ ~RefreshInvoked =>
          ~listed' /\ this'.sdfConfig = this.sdfConfig
     /\ RefreshInvoked /\ this.sdfCliIsInstalled => listed'
    ]_vars

\* refreshConfig has invoked the listing while a registry existed: the
\* listing held no authid, and the registry of the earlier load is there.
C17_Witness ==
  /\ returned.kind = "refreshConfig"
  /\ listed
  /\ NoAuthidsMessage \in shown
  /\ IsSet(this.sdfConfig)

\* C18: whenever no command is in flight, the per-command flags are at
\* their defaults, also after a command that ended without a Process
\* Session.
C18_IdleFlagsAtDefaults ==
  (\A t \in Tasks : task[t].pc = "idle") => FlagsAtDefaults

\* C19: a command invoked while the tool is available, the listing has at
\* least one environment and the chooser, if shown, returns a value, starts
\* its Process Session within that invocation: it ends without a session
\* only if the chooser was dismissed.
C19_CommandStartsSession ==
  [][returned'.outcome = "nosession" /\ IsSet(this'.sdfConfig) =>
       \E t \in Tasks :
         task[t].pc = "chooser" /\ task'[t].pc = "idle" /\ ~IsSet(picked')
    ]_vars

\* C31: whenever no command is in flight, the status text is exactly the
\* default label of the current active environment ('SDF (<authid>)', or
\* 'SDF' when none is selected), with no spinner suffix and no spinner
\* timer left running; also when the environment is changed while a
\* command runs and when two commands overlap.
C31_IdleStatusIsDefault ==
  (\A t \in Tasks : task[t].pc = "idle") =>
    /\ this.statusText = statusBarDefault(this)
    /\ this.timers = {}

(***************************************************************************)
(* Properties of one Process Session (SpecSession).                        *)
(***************************************************************************)
\* The places in stdin of what was injected for output line i.
StdinOf(i) == {k \in 1..Len(sess.stdin) : sess.stdin[k].line = i}

\* The input boxes opened for output line i.
PromptsOf(i) == {n \in 1..Len(sess.prompts) : sess.prompts[n].line = i}

IsProductionLine(line) ==
  Includes(line, <<"WARNING! You are deploying to a Production account, ",
                   "enter YES to continue">>)

IsYesLine(line) ==
  \/ Includes(line, <<"Type YES to continue">>)
  \/ Includes(line, <<"enter YES to continue">>)
  \/ Includes(line, <<"Type YES to update the manifest file">>)
  \/ Includes(line, <<"Proceed with deploy?">>)
  \/ Includes(line, <<"Type Yes (Y) to continue.">>)

\* C4: for an output line containing the production warning, 'YES\n' goes to
\* stdin only if the user typed exactly 'Deploy'; for any other answer, empty
\* or dismissed included, 'NO\n' goes to stdin, and 'YES\n' never does.
C4_ProductionPromptAnswer ==
  \A i \in 1..Len(sess.emitted) :
    IsProductionLine(sess.emitted[i]) =>
      \A n \in PromptsOf(i) :
        IF sess.prompts[n].open
        THEN StdinOf(i) = {}
        ELSE \E k \in StdinOf(i) :
               /\ StdinOf(i) = {k}
               /\ sess.stdin[k].text =
                    IF sess.prompts[n].answer = Some("Deploy") THEN "YES\n" ELSE "NO\n"

\* Two production warnings: the first answered 'deploy', the second 'Deploy'.
C4_Witness ==
  /\ Len(sess.emitted) = 2
  /\ \A i \in 1..2 : IsProductionLine(sess.emitted[i])
  /\ Len(sess.prompts) = 2
  /\ sess.prompts[1].answer = Some("deploy")
  /\ sess.prompts[2].answer = Some("Deploy")
  /\ \E k \in StdinOf(1) : sess.stdin[k].text = "NO\n"
  /\ \E k \in StdinOf(2) : sess.stdin[k].text = "YES\n"

\* C5: for every output line at most one injection into stdin is made: a
\* line with the production warning is handled by the input box alone, every
\* other line with a prompt gets 'YES\n' without an input box, and a line
\* without a prompt gets nothing.
C5_OneInjectionPerLine ==
  \A i \in 1..Len(sess.emitted) :
    /\ Cardinality(StdinOf(i)) <= 1
    /\ IF IsProductionLine(sess.emitted[i])
       THEN \E n \in PromptsOf(i) :
              /\ PromptsOf(i) = {n}
              /\ sess.prompts[n].open <=> StdinOf(i) = {}
       ELSE IF IsYesLine(sess.emitted[i])
       THEN /\ PromptsOf(i) = {}
            /\ \E k \in StdinOf(i) : sess.stdin[k].text = "YES\n"
       ELSE PromptsOf(i) = {} /\ StdinOf(i) = {}

\* A production warning whose input box is still open, then a line with two
\* of the other prompts.
C5_Witness ==
  /\ sess.emitted = <<ProductionPrompt, <<"Proceed with deploy?", EnterYes>>>>
  /\ Len(sess.prompts) = 1 /\ sess.prompts[1].open
  /\ sess.stdin = <<[line |-> 2, text |-> "YES\n"]>>

\* The lines that the filter of runCommand lets through, by the claim.
Survives(line) ==
  /\ line # <<>>
  /\ \A p \in {"[INFO]", "SuiteCloud Development Framework CLI", "Done.", "Using "} :
       ~StartsWith(line, <<p>>)

\* C6: for a command other than ListObjects, the result of a completed
\* session is the sequence of the output lines, in arrival order and
\* unchanged, that are non-empty and do not start with '[INFO]', 'SuiteCloud
\* Development Framework CLI', 'Done.' or 'Using '.
C6_ResultIsSurvivingLines ==
  sess.status = "done" /\ sess.command # "ListObjects" =>
    sess.result = Some(SelectSeq(sess.emitted, Survives))

\* A completed Validate whose first line is boilerplate and whose second
\* line only holds '[INFO]' further on.
C6_Witness ==
  /\ sess.status = "done"
  /\ sess.command = "Validate"
  /\ sess.emitted = <<<<"[INFO]", "x">>, <<"x", "[INFO]">>>>
  /\ sess.result = Some(<<<<"x", "[INFO]">>>>)

\* The whole text after the first colon of a line that has one.
AfterFirstColon(line) ==
  LET k == CHOOSE j \in 1..Len(line) :
             line[j] = ":" /\ \A h \in 1..(j - 1) : line[h] # ":"
  IN SubSeq(line, k + 1, Len(line))

\* C7: for ListObjects every surviving line that contains a colon is reduced
\* to the whole text after its first colon, and a line without a colon
\* passes unchanged; for every other command lines pass unchanged.
C7_ListObjectsKeepsTextAfterFirstColon ==
  sess.status = "done" =>
    LET kept == SelectSeq(sess.emitted, Survives)
    IN sess.result =
         Some([i \in 1..Len(kept) |->
                 IF sess.command = "ListObjects" /\ Includes(kept[i], <<":">>)
                 THEN AfterFirstColon(kept[i])
                 ELSE kept[i]])

(***************************************************************************)
(* Properties of the manifest commands (SpecManifest).                     *)
(***************************************************************************)
NoDuplicates(elements) ==
  \A i, j \in 1..Len(elements) : elements[i] = elements[j] => i = j

\* No path occurs twice in the files list or in the objects list.
ManifestPathsUnique ==
  NoDuplicates(mf.file.files) /\ NoDuplicates(mf.file.objects)

\* C11: after any sequence of addFileToDeploy and createResetDeploy calls
\* no path occurs twice in the files list or in the objects list; and where
\* each call was complete, its writes included, before the next started, an
\* add of a path that an earlier add has put there reports 'already exists'
\* and leaves the document, the order of its entries included, unchanged.
C11_AddIsIdempotent ==
  [][/\ ManifestPathsUnique'
     /\ \A i \in 1..Len(mf'.pending) :
          NoDuplicates(mf'.pending[i].doc.files)
            /\ NoDuplicates(mf'.pending[i].doc.objects)
     /\ ~mf.overlap /\ mf.call.pc = "read" /\ mf'.call.pc = "done"
          /\ <<mf.call.isObject, mf.call.path>> \in mf.added =>
            /\ mf'.call.outcome = "exists"
            /\ AlreadyExistsMessage(mf.call.isObject) \in shown'
            /\ mf'.file = mf.file
            /\ mf'.pending = mf.pending
    ]_vars

\* foo.js was added to a manifest that held bar.js, and a second add of
\* foo.js has reported 'already exists'.
C11_Witness ==
  /\ ~mf.overlap
  /\ mf.calls = 3
  /\ mf.call.outcome = "exists"
  /\ mf.call.path = "~/FileCabinet/SuiteScripts/foo.js"
  /\ AlreadyExistsMessage(FALSE) \in shown
  /\ mf.file.files = <<"~/FileCabinet/SuiteScripts/bar.js",
                       "~/FileCabinet/SuiteScripts/foo.js">>

\* C12: with the manifest absent, addFileToDeploy for a script path ends
\* with a manifest whose files list is exactly that path and with the
\* 'added' notification, in whatever order the write of the default
\* document and the read of the file complete.
C12_AddCreatesManifest ==
  /\ mf.init = "absent" /\ mf.calls = 1
  /\ mf.call.pc = "done" /\ mf.call.outcome # "reset" /\ ~mf.call.isObject
  /\ mf.pending = <<>>
  => /\ mf.file = [state |-> "doc", files |-> <<mf.call.path>>, objects |-> <<>>]
     /\ mf.notified

(***************************************************************************)
(* Properties of the extension without sdfcli (SpecMissing).               *)
(***************************************************************************)
\* C13: once sdfcli has been found missing, every command returns after
\* showing the not-found notification, without starting a Process Session,
\* without invoking the account listing and without writing, renaming or
\* deleting a file.
C13_MissingToolShortCircuits ==
  [][boot = "missing" =>
       /\ \A t \in Tasks : task'[t].pc # "running"
       /\ ~listed'
       /\ mf'.file = mf.file /\ mf'.pending = mf.pending
       /\ ~fs'.rimraf
       /\ mf'.calls = mf.calls + 1 => NotFoundMessage \in shown'
    ]_vars

(***************************************************************************)
(* Properties of one argument vector (SpecArgv).                           *)
(***************************************************************************)
RECURSIVE JoinSpaces(_)
\* The texts of a sequence put together with one space between them.
JoinSpaces(texts) ==
  IF texts = <<>> THEN <<>>
  ELSE IF Len(texts) = 1 THEN texts[1]
  ELSE texts[1] \o <<" ">> \o JoinSpaces(Tail(texts))

C8_RegistryHasOneEnvironmentPerRow ==
  listing.loaded /\ Len(listing.rows) >= 1 =>
    /\ IsSet(this.sdfConfig)
    /\ Val(this.sdfConfig).environments =
         [i \in 1..Len(listing.rows) |-> [authid |-> listing.rows[i].authid]]

\* A listing of two padded rows with further fields has been loaded.
C8_Witness ==
  /\ listing.loaded
  /\ Len(listing.rows) = 2
  /\ listing.rows[1].lead = 1 /\ listing.rows[1].trail = 1
  /\ listing.rows[1].rest # <<>>
  /\ listing.rows[2].lead = 1 /\ listing.rows[2].rest = <<>>
  /\ IsSet(this.sdfConfig)
  /\ Val(this.sdfConfig).environments = <<[authid |-> <<"a", "b">>], [authid |-> <<"a">>]>>

(***************************************************************************)
(* Pattern resolution: getFilePaths.  A path is the sequence of its        *)
(* segments; a pattern or a resolved path as text is a sequence of tokens, *)
(* the separator "/" being a token of its own.  gl holds the regular files *)
(* and the directories under rootPath, the patterns handed in and the      *)
(* list returned.  The names are ordinary ones: none starts with '.'.      *)
(***************************************************************************)
MaxPatterns == 2

ProjectFiles ==
  {<<"FileCabinet", "SuiteScripts", "a.js">>,
   <<"FileCabinet", "SuiteScripts", "lib", "b.js">>,
   <<"FileCabinet", "SuiteScripts", "lib", "deep", "c.js">>,
   <<"Objects", "o.xml">>}

EmptyDir == <<"FileCabinet", "SuiteScripts", "empty">>

\* The directories that hold the files.
ParentDirs(files) ==
  UNION {{SubSeq(f, 1, n) : n \in 1..(Len(f) - 1)} : f \in files}

FilePatterns ==
  {<<"~", "/", "FileCabinet", "/", "SuiteScripts", "/", "*">>,
   <<"~", "/", "FileCabinet", "/", "SuiteScripts", "/", "lib", "/", "*">>,
   <<"~", "/", "FileCabinet", "/", "SuiteScripts", "/", "a.js">>,
   <<"~", "/", "FileCabinet", "/", "SuiteScripts", "/", "lib">>,
   <<"~", "/", "FileCabinet", "/", "*", "/", "lib", "/", "*">>,
   <<"~", "/", "Objects", "/", "*">>}

\* String.replace(search, replacement): the first occurrence only.
RECURSIVE replaceFirst(_, _, _)
replaceFirst(text, search, replacement) ==
  IF text = <<>> THEN <<>>
  ELSE IF Head(text) = search THEN replacement \o Tail(text)
  ELSE <<Head(text)>> \o replaceFirst(Tail(text), search, replacement)

\* path.join(base, text): the segments of text below base.
pathJoin(base, text) == base \o SelectSeq(text, LAMBDA tok : tok # "/")

\* glob's match of a pattern against a path, segment by segment: '**'
\* stands for any number of segments, '*' for one.
RECURSIVE globMatch(_, _)
globMatch(pattern, path) ==
  IF pattern = <<>> THEN path = <<>>
  ELSE IF Head(pattern) = "**"
       THEN \/ globMatch(Tail(pattern), path)
            \/ path # <<>> /\ globMatch(pattern, Tail(path))
  ELSE IF path = <<>> THEN FALSE
  ELSE IF Head(pattern) = "*" THEN globMatch(Tail(pattern), Tail(path))
  ELSE Head(pattern) = Head(path) /\ globMatch(Tail(pattern), Tail(path))

\* The order in which glob hands out its matches.
GlobOrder ==
  <<<<"FileCabinet">>,
    <<"FileCabinet", "SuiteScripts">>,
    <<"FileCabinet", "SuiteScripts", "a.js">>,
    <<"FileCabinet", "SuiteScripts", "empty">>,
    <<"FileCabinet", "SuiteScripts", "lib">>,
    <<"FileCabinet", "SuiteScripts", "lib", "b.js">>,
    <<"FileCabinet", "SuiteScripts", "lib", "deep">>,
    <<"FileCabinet", "SuiteScripts", "lib", "deep", "c.js">>,
    <<"Objects">>,
    <<"Objects", "o.xml">>>>

\* globAsync(pattern, { nodir: true }): the full paths of the matches.
globAsync(g, pattern, nodir) ==
  LET Matches(rel) ==
        /\ rel \in g.files \cup g.dirs
        /\ nodir => rel \in g.files
        /\ globMatch(pattern, rootPath \o rel)
  IN [i \in 1..Len(SelectSeq(GlobOrder, Matches)) |->
        rootPath \o SelectSeq(GlobOrder, Matches)[i]]

\* The reduce of getFilePaths: a match is pushed unless indexOf finds it.
RECURSIVE pushNew(_, _)
pushNew(filePathAccum, matches) ==
  IF matches = <<>> THEN filePathAccum
  ELSE pushNew(IF \E i \in 1..Len(filePathAccum) : filePathAccum[i] = Head(matches)
               THEN filePathAccum
               ELSE Append(filePathAccum, Head(matches)),
               Tail(matches))

RECURSIVE reduceMatches(_, _)
reduceMatches(filePathAccum, matchArr) ==
  IF matchArr = <<>> THEN filePathAccum
  ELSE reduceMatches(pushNew(filePathAccum, Head(matchArr)), Tail(matchArr))

\* `${path.sep}${path.relative(rootPath, fullPath)}` as text.
RECURSIVE joinSep(_)
joinSep(segments) ==
  IF segments = <<>> THEN <<>>
  ELSE IF Len(segments) = 1 THEN segments
  ELSE <<Head(segments), "/">> \o joinSep(Tail(segments))

relativeText(fullPath) ==
  <<"/">> \o joinSep(SubSeq(fullPath, Len(rootPath) + 1, Len(fullPath)))

\* getFilePaths with the pattern's '*' left as it is.
getFilePathsSingleStar(g, filePatterns) ==
  LET matchArr == [i \in 1..Len(filePatterns) |->
                     globAsync(g, pathJoin(rootPath,
                                 replaceFirst(filePatterns[i], "~", <<>>)),
                               TRUE)]
      filePaths == reduceMatches(<<>>, matchArr)
  IN [i \in 1..Len(filePaths) |-> relativeText(filePaths[i])]

getFilePaths(g, filePatterns) ==
  LET matchArr == [i \in 1..Len(filePatterns) |->
                     globAsync(g, pathJoin(rootPath,
                                 replaceFirst(replaceFirst(filePatterns[i], "~", <<>>),
                                              "*", <<"**">>)),
                               TRUE)]
      filePaths == reduceMatches(<<>>, matchArr)
  IN [i \in 1..Len(filePaths) |-> relativeText(filePaths[i])]

InitGlob ==
  /\ this \in {[o EXCEPT !.rootPath = Some(rootPath)] : o \in InitThis}
  /\ fs = [osTmpdir |-> <<"tmp">>, tmpDirs |-> {}, staged |-> {},
           rimraf |-> FALSE, made |-> 0]
  /\ task = [t \in Tasks |-> IdleTask]
  /\ shown = {}
  /\ picked = Undefined
  /\ returned = NoReturn
  /\ invoked = 0
  /\ sess = NoSession
  /\ listing = NoListing
  /\ listed = FALSE /\ mf = NoManifest /\ av = NoArgv
  /\ boot = "done" /\ fl = NoFlow
  /\ \E files \in SUBSET ProjectFiles, empty \in SUBSET {EmptyDir},
        n \in 0..MaxPatterns :
       \E patterns \in [1..n -> FilePatterns] :
         gl = [NoGlob EXCEPT !.files = files,
                             !.dirs = ParentDirs(files \cup empty) \cup empty,
                             !.patterns = patterns]

\* getFilePaths resolves the patterns.
GlobResolve ==
  /\ ~gl.done
  /\ gl' = [gl EXCEPT !.result = getFilePaths(gl, gl.patterns), !.done = TRUE]
  /\ UNCHANGED <<this, fs, task, shown, picked, returned, invoked, sess, listing,
                 listed, mf, av, boot, fl>>

NextGlob == GlobResolve

SpecGlob == InitGlob /\ [][NextGlob]_vars

\* A pattern that ends in its only '*', and the folder in front of it.
EndsInSingleStar(pattern) ==
  /\ Len(pattern) >= 2
  /\ pattern[Len(pattern)] = "*"
  /\ pattern[Len(pattern) - 1] = "/"
  /\ \A i \in 1..(Len(pattern) - 1) : pattern[i] # "*"

FolderOf(pattern) ==
  SelectSeq(SubSeq(pattern, 1, Len(pattern) - 1),
            LAMBDA tok : tok \notin {"~", "/"})

Below(folder, path) ==
  Len(path) > Len(folder) /\ SubSeq(path, 1, Len(folder)) = folder

\* C16: a pattern ending in a single '*' resolves to every regular file at
\* any depth under its folder; the resolved list holds regular files only,
\* and none of them twice, also when several patterns match the same file.
C16_PatternResolution ==
  gl.done =>
    /\ \A i \in 1..Len(gl.patterns) :
         EndsInSingleStar(gl.patterns[i]) =>
           \A f \in gl.files :
             Below(FolderOf(gl.patterns[i]), f) =>
               \E j \in 1..Len(gl.result) : gl.result[j] = <<"/">> \o joinSep(f)
    /\ \A j \in 1..Len(gl.result) :
         \E f \in gl.files : gl.result[j] = <<"/">> \o joinSep(f)
    /\ NoDuplicates(gl.result)

\* Two overlapping patterns have resolved a tree with a file two folders
\* below SuiteScripts and an empty directory.
C16_Witness ==
  /\ gl.done
  /\ gl.patterns = <<<<"~", "/", "FileCabinet", "/", "SuiteScripts", "/", "*">>,
                     <<"~", "/", "FileCabinet", "/", "SuiteScripts", "/", "lib", "/", "*">>>>
  /\ gl.files = ProjectFiles
  /\ EmptyDir \in gl.dirs
  /\ gl.result = <<<<"/", "FileCabinet", "/", "SuiteScripts", "/", "a.js">>,
                   <<"/", "FileCabinet", "/", "SuiteScripts", "/", "lib", "/", "b.js">>,
                   <<"/", "FileCabinet", "/", "SuiteScripts", "/", "lib", "/", "deep", "/", "c.js">>>>

(***************************************************************************)
(* The flows with prompts: authenticate, createProject, importFiles,       *)
(* importObjects, update and sync.  One flow runs at a time; a step is the *)
(* code of the flow between two awaits that wait for the user or for the   *)
(* subprocess.  The chooser of selectEnvironment, where a getConfig of the *)
(* flow shows it, is answered within the step.                             *)
(***************************************************************************)
MaxFlows == 2

FlowKinds ==
  {"authenticate", "createProject", "importFiles", "importObjects", "update", "sync"}

AuthenticateMessage == "Your browser will open to authenticate to NetSuite."
SyncFilesMessage == "Synchronizing SuiteScript folder."
SyncObjectMessage == "Synchronizing "
SyncCompleteMessage == "Synchronization complete!"
EmptyingMessage == "Emptying: "

\* What the user types into an input box, and picks in a quick pick.
InputAnswers == {Undefined, Some(""), Some("x"), Some("OK"), Some("ok")}
PickAnswers == {Undefined, Some(<<>>), Some(<<"x">>)}

\* The lines a listing session hands back: none that passes the filter of
\* the flow, or one.
SessionData == {"none", "some"}

\* await this.getConfig() of a flow, the chooser answered with pick.
flowGetConfig(w, out, pick) ==
  LET g == getConfig(w, FALSE, out)
  IN IF g.wait /\ IsSet(pick) /\ \E i \in 1..Len(g.names) : g.names[i] = Val(pick)
     THEN setActiveEnvironment(g.w, Val(pick))
     ELSE g.w

\* runCommand of a flow up to the spawn, or to its return without one.
flowRunCommand(w, f, command, out, pick) ==
  LET w1 == flowGetConfig(w, out, pick)
  IN IF IsSet(w1.this.sdfConfig) /\ IsSet(w1.this.activeEnvironment)
     THEN [w |-> [w1 EXCEPT !.this = showStatus([@ EXCEPT !.sdfcli = Some(1)])],
           f |-> [f EXCEPT !.pc = "session", !.cmd = command, !.sessions = @ + 1]]
     ELSE [w |-> w1, f |-> [f EXCEPT !.pc = "done", !.unrun = @ + 1]]

\* runCommand of a flow from the end of the stream on.
flowRunCommandExit(w, exit) == cleanup(settle(w, exit).w)

FlowDone(w, f) == [w |-> w, f |-> [f EXCEPT !.pc = "done"]]

\* A flow from its invocation to its first prompt or session.
flowStart(w, f, hasObjects, out, pick) ==
  IF ~w.this.sdfCliIsInstalled THEN FlowDone(Note(w, NotFoundMessage), f)
  ELSE CASE f.kind = "authenticate" -> [w |-> w, f |-> [f EXCEPT !.pc = "authid"]]
         [] f.kind = "createProject" ->
              [w |-> [w EXCEPT !.this.addDefaultParameters = FALSE],
               f |-> [f EXCEPT !.pc = "pathPrompt"]]
         [] f.kind = "importFiles" ->
              flowRunCommand([w EXCEPT !.this.doAddProjectParameter = FALSE,
                                       !.this.doReturnData = TRUE],
                             f, "ListFiles", out, pick)
         [] f.kind = "importObjects" ->
              LET w1 == flowGetConfig([w EXCEPT !.this.doAddProjectParameter = FALSE,
                                                !.this.doReturnData = TRUE],
                                      out, pick)
              IN IF IsSet(w1.this.sdfConfig)
                 THEN [w |-> w1, f |-> [f EXCEPT !.pc = "typePrompt"]]
                 ELSE FlowDone(w1, f)
         [] f.kind = "update" ->
              LET w1 == flowGetConfig(w, out, pick)
              IN IF hasObjects
                 THEN [w |-> w1, f |-> [f EXCEPT !.pc = "selectPrompt"]]
                 ELSE FlowDone(w1, f)
         [] f.kind = "sync" -> [w |-> w, f |-> [f EXCEPT !.pc = "confirm"]]

\* A sync that takes the answer without regard to case.
syncConfirmedAnyCase(answer) == answer \in {Some("OK"), Some("ok")}

\* The test of sync on the answer of its input box.
syncConfirmed(answer) == answer = Some("OK")

\* An authenticate that leaves the registry as it is.
authenticateKeepsRegistry(w, given) ==
  IF given THEN Note(w, AuthenticateMessage) ELSE w

\* authenticate after its input box: with an authid the registry is
\* cleared and the terminal is sent the sdfcli line.
authenticate(w, given) ==
  IF given
  THEN [Note(w, AuthenticateMessage) EXCEPT !.this.sdfConfig = Undefined]
  ELSE w

\* The input box of the flow has returned answer.
flowInput(w, f, answer, out, pick) ==
  LET given == IsSet(answer) /\ Val(answer) # ""
      f1 == [f EXCEPT !.answer = answer, !.dismissed = @ \/ ~IsSet(answer)]
  IN CASE f.pc = "authid" ->
            FlowDone(authenticate(w, given), f1)
       [] f.pc = "pathPrompt" ->
            IF given THEN [w |-> w, f |-> [f1 EXCEPT !.pc = "namePrompt"]]
            ELSE FlowDone(w, f1)
       [] f.pc = "namePrompt" ->
            IF given THEN flowRunCommand(w, f1, "CreateProject", out, pick)
            ELSE FlowDone(w, f1)
       [] f.pc = "confirm" ->
            IF syncConfirmed(answer)
            THEN [w |-> flowGetConfig(w, out, pick), f |-> [f1 EXCEPT !.pc = "removeFolders"]]
            ELSE FlowDone(w, f1)

\* this.currentObject = await showQuickPick(CustomObjects): the type
\* prompt assigns what it returns, also when that is undefined.
pickObject(w, f, chosen, selection) ==
  IF f.pc = "typePrompt"
  THEN [w EXCEPT !.this.currentObject = IF chosen THEN selection ELSE Undefined]
  ELSE w

\* The flow acts on a selection.  importObjects reads this.currentObject
\* for the type and the destination of its import; reading a property of
\* undefined throws, and the flow ends there.
flowSelected(w, f, out, pick) ==
  CASE f.pc = "typePrompt" ->
         flowRunCommand(w, [f EXCEPT !.object = w.this.currentObject],
                        "ListObjects", out, pick)
    [] f.pc = "filesPrompt" -> flowRunCommand(w, f, "ImportFiles", out, pick)
    [] f.pc = "objectsPrompt" ->
         IF IsSet(w.this.currentObject)
         THEN flowRunCommand(w, [f EXCEPT !.imported = Some(w.this.currentObject)],
                             "ImportObjects", out, pick)
         ELSE FlowDone(w, [f EXCEPT !.imported = Some(Undefined)])
    [] f.pc = "selectPrompt" -> flowRunCommand(w, f, "Update", out, pick)

\* A flow that imports whatever the multi-select returns.
flowPickAlways(w, f, selection, out, pick) ==
  LET f1 == [f EXCEPT !.dismissed = @ \/ ~IsSet(selection)]
  IN flowSelected(pickObject(w, f, TRUE, selection), f1, out, pick)

\* The quick pick of the flow has returned selection.
flowPick(w, f, selection, out, pick) ==
  LET chosen == IsSet(selection) /\ Len(Val(selection)) > 0
      f1 == [f EXCEPT !.dismissed = @ \/ ~IsSet(selection)]
      w1 == pickObject(w, f, chosen, selection)
  IN IF ~chosen THEN FlowDone(w1, f1) ELSE flowSelected(w1, f1, out, pick)

\* The session of the flow has ended; data is what a session that
\* completed hands back.
flowExit(w, f, exit, data) ==
  LET w1 == flowRunCommandExit(w, exit)
      f1 == [f EXCEPT !.cmd = "none", !.cleaned = TRUE,
                      !.failed = IF exit = "failed" THEN @ + 1 ELSE @]
      listed1 == exit = "ok" /\ data = "some"
  IN CASE f.cmd = "ListFiles" /\ listed1 -> [w |-> w1, f |-> [f1 EXCEPT !.pc = "filesPrompt"]]
       [] f.cmd = "ListObjects" /\ listed1 -> [w |-> w1, f |-> [f1 EXCEPT !.pc = "objectsPrompt"]]
       [] OTHER -> FlowDone(w1, f1)

\* The catalog of object types (custom-object.ts): one type that sync
\* handles and one that getObjectFunc passes over.
CustomObjects == <<"customrecordtype", "savedsearch">>

Skipped(type) == type \in {"savedsearch", "csvimport"}

\* removeFolders within sync: rimraf on both folders, with a registry only.
syncRemoveFolders(w, f, out, pick) ==
  LET w1 == flowGetConfig(w, out, pick)
  IN IF IsSet(w1.this.sdfConfig)
     THEN [w |-> Note(w1, EmptyingMessage),
           f |-> [f EXCEPT !.pc = "dispatch",
                           !.emptied = {"Objects", "FileCabinet/SuiteScripts"}]]
     ELSE [w |-> w1, f |-> [f EXCEPT !.pc = "dispatch"]]

\* The sub-flows of sync as Bluebird.map starts them: getFiles, then one
\* function per object type, each run up to its first await.
syncSubs ==
  <<[kind |-> "files", type |-> "", pc |-> "start", cmd |-> "none"]>>
  \o [i \in 1..Len(CustomObjects) |->
        [kind |-> "object", type |-> CustomObjects[i],
         pc |-> IF Skipped(CustomObjects[i]) THEN "done" ELSE "start",
         cmd |-> "none"]]

\* sync after removeFolders: the sub-flows are started, or with no
\* registry the finally block runs at once.
syncDispatch(w, f) ==
  IF IsSet(w.this.sdfConfig)
  THEN [w |-> IF \E i \in 1..Len(CustomObjects) : ~Skipped(CustomObjects[i])
              THEN [w EXCEPT !.this.doAddProjectParameter = FALSE,
                             !.this.doReturnData = TRUE]
              ELSE w,
        f |-> [f EXCEPT !.pc = "dispatched", !.subs = syncSubs]]
  ELSE [w |-> cleanup(w), f |-> [f EXCEPT !.pc = "done", !.cleaned = TRUE]]

\* runCommand of sub-flow i up to the spawn, or to its return without one.
subRunCommand(w, f, i, command, out, pick) ==
  LET r == flowRunCommand(w, f, command, out, pick)
  IN IF r.f.pc = "session"
     THEN [w |-> r.w, f |-> [r.f EXCEPT !.pc = f.pc, !.cmd = f.cmd,
                                        !.subs[i].pc = "session",
                                        !.subs[i].cmd = command]]
     ELSE [w |-> r.w, f |-> [r.f EXCEPT !.pc = f.pc, !.subs[i].pc = "done"]]

\* Sub-flow i after its getConfig: getFiles calls listFiles, the function
\* of an object type calls runCommand.
subStart(w, f, i, out, pick) ==
  LET w1 == flowGetConfig(w, out, pick)
  IN IF ~IsSet(w1.this.sdfConfig)
     THEN [w |-> w1, f |-> [f EXCEPT !.subs[i].pc = "done"]]
     ELSE IF f.subs[i].kind = "files"
     THEN IF ~w1.this.sdfCliIsInstalled
          THEN [w |-> Note(w1, NotFoundMessage), f |-> [f EXCEPT !.subs[i].pc = "done"]]
          ELSE subRunCommand([w1 EXCEPT !.this.doAddProjectParameter = FALSE],
                             f, i, "ListFiles", out, pick)
     ELSE subRunCommand(w1, f, i, "ListObjects", out, pick)

\* The session of sub-flow i has ended.  data "none" stands for no line
\* (ListFiles) or the line 'No custom objects found.' (ListObjects);
\* throws: createPath fails in _importObjects.
subExit(w, f, i, exit, data, throws, out, pick) ==
  LET w1 == flowRunCommandExit(w, exit)
      f1 == [f EXCEPT !.subs[i].pc = "done", !.subs[i].cmd = "none",
                      !.failed = IF exit = "failed" THEN @ + 1 ELSE @]
      cmd == f.subs[i].cmd
  IN CASE cmd = "ListFiles" /\ exit = "ok" ->
            subRunCommand(Note(w1, SyncFilesMessage), f1, i, "ImportFiles", out, pick)
       [] cmd = "ListObjects" /\ exit = "ok" /\ data = "some" ->
            IF throws
            THEN [w |-> Note(w1, SyncObjectMessage), f |-> [f1 EXCEPT !.threw = TRUE]]
            ELSE subRunCommand(Note(w1, SyncObjectMessage), f1, i, "ImportObjects", out, pick)
       [] OTHER -> [w |-> w1, f |-> f1]

\* Bluebird.map has settled: sync shows its notification, or with a
\* sub-flow that threw passes through the empty catch; the finally block
\* runs cleanup.
syncEnd(w, f) ==
  [w |-> cleanup(IF f.threw THEN w ELSE Note(w, SyncCompleteMessage)),
   f |-> [f EXCEPT !.pc = "done", !.cleaned = TRUE]]

FlowThis ==
  {o \in InitThis : TRUE}
  \cup {[o EXCEPT !.sdfConfig = Some([environments |-> <<[authid |-> <<"a">>],
                                                        [authid |-> <<"b">>]>>]),
                  !.activeEnvironment = e,
                  !.rootPath = Some(rootPath)] :
          o \in {x \in InitThis : x.sdfCliIsInstalled},
          e \in {Undefined, Some([authid |-> <<"a">>])}}

InitFlows ==
  /\ this \in FlowThis
  /\ fs = [osTmpdir |-> <<"tmp">>, tmpDirs |-> {}, staged |-> {},
           rimraf |-> FALSE, made |-> 0]
  /\ task = [t \in Tasks |-> IdleTask]
  /\ shown = {}
  /\ picked = Undefined
  /\ returned = NoReturn
  /\ invoked = 0
  /\ sess = NoSession
  /\ listing = NoListing
  /\ listed = FALSE /\ mf = NoManifest /\ gl = NoGlob /\ av = NoArgv
  /\ boot = "done" /\ fl = NoFlow

FlowFrame ==
  UNCHANGED <<fs, task, picked, returned, invoked, sess, listing, mf, gl, av, boot>>

FlowApply(r) ==
  /\ this' = r.w.this
  /\ shown' = r.w.shown
  /\ listed' = r.w.listed
  /\ fl' = r.f
  /\ FlowFrame

FlowChoices == {Undefined, Some(<<"a">>)}

SubsDone == \A i \in 1..Len(fl.subs) : fl.subs[i].pc = "done"

\* The user invokes a flow.
FlowStart(kind, hasObjects, out, pick) ==
  /\ fl.pc \in {"idle", "done"}
  /\ SubsDone
  /\ fl.flows < MaxFlows
  /\ FlowApply(flowStart(World, [NoFlow EXCEPT !.kind = kind, !.flows = fl.flows + 1],
                         hasObjects, out, pick))

FlowInput(answer, out, pick) ==
  /\ fl.pc \in {"authid", "pathPrompt", "namePrompt", "confirm"}
  /\ FlowApply(flowInput(World, [fl EXCEPT !.cleaned = FALSE], answer, out, pick))

FlowPick(selection, out, pick) ==
  /\ fl.pc \in {"typePrompt", "filesPrompt", "objectsPrompt", "selectPrompt"}
  /\ FlowApply(flowPick(World, [fl EXCEPT !.cleaned = FALSE], selection, out, pick))

FlowExit(exit, data) ==
  /\ fl.pc = "session"
  /\ FlowApply(flowExit(World, fl, exit, data))

SyncRemoveFolders(out, pick) ==
  /\ fl.pc = "removeFolders"
  /\ FlowApply(syncRemoveFolders(World, fl, out, pick))

SyncDispatch ==
  /\ fl.pc = "dispatch"
  /\ FlowApply(syncDispatch(World, fl))

SubStart(i, out, pick) ==
  /\ i \in 1..Len(fl.subs)
  /\ fl.subs[i].pc = "start"
  /\ FlowApply(subStart(World, [fl EXCEPT !.cleaned = FALSE], i, out, pick))

SubExit(i, exit, data, throws, out, pick) ==
  /\ i \in 1..Len(fl.subs)
  /\ fl.subs[i].pc = "session"
  /\ FlowApply(subExit(World, [fl EXCEPT !.cleaned = FALSE], i, exit, data, throws,
                       out, pick))

SyncEnd ==
  /\ fl.pc = "dispatched"
  /\ SubsDone \/ fl.threw
  /\ FlowApply(syncEnd(World, fl))

\* This step spawns sdfcli for the flow or for one of its sub-flows.
StartsSession ==
  \/ fl'.pc = "session" /\ fl.pc # "session"
  \/ \E i \in 1..Len(fl'.subs) :
       /\ fl'.subs[i].pc = "session"
       /\ i \in 1..Len(fl.subs) => fl.subs[i].cmd # fl'.subs[i].cmd

NextFlows ==
  \/ \E kind \in FlowKinds, hasObjects \in BOOLEAN, out \in Listings,
        pick \in FlowChoices :
       FlowStart(kind, hasObjects, out, pick)
  \/ \E answer \in InputAnswers, out \in Listings, pick \in FlowChoices :
       FlowInput(answer, out, pick)
  \/ \E selection \in PickAnswers, out \in Listings, pick \in FlowChoices :
       FlowPick(selection, out, pick)
  \/ \E exit \in {"ok", "failed"}, data \in SessionData : FlowExit(exit, data)
  \/ \E out \in Listings, pick \in FlowChoices : SyncRemoveFolders(out, pick)
  \/ SyncDispatch
  \/ \E i \in 1..(Len(CustomObjects) + 1), out \in Listings, pick \in FlowChoices :
       SubStart(i, out, pick)
  \/ \E i \in 1..(Len(CustomObjects) + 1), exit \in {"ok", "failed"},
        data \in SessionData, throws \in BOOLEAN, out \in Listings,
        pick \in FlowChoices :
       SubExit(i, exit, data, throws, out, pick)
  \/ SyncEnd

SpecFlows == InitFlows /\ [][NextFlows]_vars

(***************************************************************************)
(* importObjects next to another command: validate may be invoked, and its *)
(* session may end, at every await of the flow.                            *)
(***************************************************************************)
ObjectPicks == {Undefined, Some(<<"x">>), Some(<<"y">>)}

NextRetain ==
  \/ \E out \in Listings, pick \in FlowChoices :
       FlowStart("importObjects", FALSE, out, pick)
  \/ \E selection \in ObjectPicks, out \in Listings, pick \in FlowChoices :
       FlowPick(selection, out, pick)
  \/ \E exit \in {"ok", "failed"}, data \in SessionData : FlowExit(exit, data)
  \/ \E t \in Tasks, out \in Listings : Invoke(t, "validate", FALSE, out)
  \/ \E t \in Tasks, pick \in {Undefined} \cup {Some(a) : a \in Authids}, out \in Listings :
       Choose(t, pick, out)
  \/ \E t \in Tasks : ExitOk(t)
  \/ \E t \in Tasks : ExitFail(t)

SpecRetain == InitFlows /\ [][NextRetain]_vars

\* C24: sync empties the Objects and SuiteScripts folders, starts its
\* sub-flows and starts sessions only when the answer to its input box was
\* exactly 'OK'; after any other answer, or a dismissal, sync has ended
\* with nothing emptied and no session started.
C24_SyncOnlyAfterOK ==
  fl.kind = "sync" =>
    /\ fl.emptied # {} \/ fl.subs # <<>> \/ fl.sessions > 0 => fl.answer = Some("OK")
    /\ fl.pc # "confirm" /\ fl.answer # Some("OK") =>
         fl.pc = "done" /\ fl.emptied = {} /\ fl.subs = <<>> /\ fl.sessions = 0

\* sync has ended on the answer 'ok', with a registry and an active
\* environment in place.
C24_Witness ==
  /\ fl.kind = "sync"
  /\ fl.answer = Some("ok")
  /\ fl.pc = "done"
  /\ this.sdfCliIsInstalled
  /\ IsSet(this.sdfConfig) /\ IsSet(this.activeEnvironment)

\* C25: sync shows 'Synchronization complete!' only when no session of a
\* sub-flow failed, every runCommand of a sub-flow got its session and no
\* sub-flow threw; sync ends with cleanup in every case.
C25_SyncSuccessOnlyWithoutFailure ==
  [][/\ SyncCompleteMessage \in shown' =>
          fl'.failed = 0 /\ fl'.unrun = 0 /\ ~fl'.threw
     /\ fl.kind = "sync" /\ fl.pc \in {"dispatch", "dispatched"} /\ fl'.pc = "done" =>
          fl'.cleaned
    ]_vars

\* C26: authenticate starts no session; with a non-empty authid it clears
\* the registry, and a later step that starts a session with the registry
\* cleared invokes the account listing first; with the input box dismissed
\* it leaves the registry as it was.
C26_AuthenticateInvalidatesRegistry ==
  [][/\ fl'.kind = "authenticate" => ~StartsSession /\ fl'.sessions = 0
     /\ fl.pc = "authid" =>
          /\ fl'.pc = "done"
          /\ IF IsSet(fl'.answer) /\ Val(fl'.answer) # ""
             THEN this'.sdfConfig = Undefined
             ELSE this'.sdfConfig = this.sdfConfig
     /\ StartsSession /\ ~IsSet(this.sdfConfig) => listed' /\ IsSet(this'.sdfConfig)
    ]_vars

\* After an authenticate, the next flow has started a session in the step
\* in which the account listing was invoked.
C26_Witness ==
  /\ fl.flows = 2
  /\ fl.kind = "importFiles"
  /\ fl.pc = "session"
  /\ listed

\* C30: once a prompt of a flow was dismissed, the flow starts no session:
\* not in the step of the dismissal, which ends the flow, and not later.
C30_DismissedPromptStartsNoSession ==
  [][/\ fl'.dismissed /\ ~fl.dismissed => ~StartsSession /\ fl'.pc = "done"
     /\ fl.dismissed /\ fl'.flows = fl.flows => ~StartsSession
    ]_vars

\* importFiles has listed the files in a session, and has ended when its
\* multi-select was dismissed.
C30_Witness ==
  /\ fl.kind = "importFiles"
  /\ fl.dismissed
  /\ fl.sessions = 1
  /\ fl.pc = "done"

\* C35: the import step of importObjects uses the object type and
\* destination chosen in its own list-objects step, whatever other command
\* starts or finishes while its multi-select is open: what the import step
\* reads as the current object is the object the flow chose.
C35_ImportUsesOwnChoice ==
  fl.kind = "importObjects" /\ IsSet(fl.imported) => Val(fl.imported) = fl.object

\* C33: sync deletes the local Objects and FileCabinet/SuiteScripts
\* contents only in a run in which an active environment is set: a step
\* that empties the folders leaves an active environment, so that with
\* none selected (first run, or chooser cancelled) nothing is deleted.
C33_SyncDeletesOnlyWithEnvironment ==
  [][fl'.emptied # {} /\ fl.emptied = {} => IsSet(this'.activeEnvironment)]_vars

\* The newline-terminated segments of a text, in order.
TerminatedSegments(text) ==
  LET pieces == Split(text, "\n") IN SubSeq(pieces, 1, Len(pieces) - 1)

\* C27: however the output is cut into chunks, the lines handed on are the
\* newline-terminated segments of what has arrived, in order and each
\* once; the text after the last newline is held back, and is not handed
\* on when the stream completes.
C27_LinesIndependentOfChunks ==
  /\ sess.emitted = TerminatedSegments(SubSeq(sess.output, 1, sess.delivered))
  /\ sess.status = "running" =>
       sess.buf = Split(SubSeq(sess.output, 1, sess.delivered), "\n")
                    [Len(sess.emitted) + 1]

\* The output 'x', newline, 'y', newline has arrived in four chunks, each
\* line cut apart from its newline, and both lines were handed on.
C27_Witness ==
  /\ sess.output = <<"x", "\n", "y", "\n">>
  /\ sess.delivered = 4
  /\ sess.chunks = 4
  /\ sess.emitted = <<<<"x">>, <<"y">>>>
  /\ sess.buf = <<>>

\* C34: output text after the last newline is never delivered as a line,
\* not even when the process exits: once the stream has completed, the
\* lines handed on are the newline-terminated segments of the whole output
\* and the result of the command holds those of them that pass the filter.
C34_UnterminatedTailIsDropped ==
  sess.status = "done" /\ sess.delivered = Len(sess.output) /\ sess.chunks > 0 =>
    /\ sess.emitted = TerminatedSegments(sess.output)
    /\ sess.result = Some(SelectSeq(TerminatedSegments(sess.output), keepLine))

\* The process has printed a line and an unterminated text, in two chunks,
\* and has exited: the result holds the line alone.
C34_Witness ==
  /\ sess.status = "done"
  /\ sess.output = <<"x", "\n", "y">>
  /\ sess.chunks = 2
  /\ sess.buf = <<"y">>
  /\ sess.result = Some(<<<<"x">>>>)

(***************************************************************************)
(* The target of addFileToDeploy: the tests on currentFile that come       *)
(* before the manifest is read.  _.includes on two strings is a substring  *)
(* test.                                                                   *)
(***************************************************************************)
InvalidFileMessage == "Invalid file to add to deploy.xml. File is not a Script or an Object."
NoMatchMessage == "No matching compiled JavaScript file found in FileCabinet/SuiteScripts/**."

\* The files a user may have open or may click on, below the project root.
TargetSegments ==
  {<<<<"FileCabinet">>, <<"SuiteScripts">>, <<"foo", ".js">>>>,
   <<<<"FileCabinet">>, <<"SuiteScripts">>, <<"lib">>, <<"foo", ".js">>>>,
   <<<<"FileCabinet">>, <<"SuiteScripts">>, <<"page", ".html">>>>,
   <<<<"FileCabinet">>, <<"SuiteScripts", "2">>, <<"foo", ".js">>>>,
   <<<<"FileCabinet">>, <<"Templates">>, <<"page", ".html">>>>,
   <<<<"Objects">>, <<"custrecord", ".xml">>>>,
   <<<<"Objects">>, <<"custrecord", ".xml", ".bak">>>>,
   <<<<"Objects">>, <<"readme", ".txt">>>>,
   <<<<"Objects", "Old">>, <<"custrecord", ".xml">>>>,
   <<<<"src">>, <<"foo", ".ts">>>>,
   <<<<"README", ".md">>>>}

\* What the search under FileCabinet/SuiteScripts finds for a TypeScript
\* file: the folder is absent (readdir rejects), no file of that name, one
\* file, or several of which none lies in a folder named as the target's.
TargetMatches == {"absent", "none", "one", "ambiguous"}

RECURSIVE pathText(_)
\* The text of a path below a folder: each segment after a separator.
pathText(segments) ==
  IF segments = <<>> THEN <<>>
  ELSE <<"/">> \o Head(segments) \o pathText(Tail(segments))

ScriptsText == rootPath \o <<"/", "FileCabinet", "/", "SuiteScripts">>
ObjectsText == rootPath \o <<"/", "Objects">>
MatchedScript == rootPath \o <<"/", "FileCabinet", "/", "SuiteScripts", "/", "foo", ".js">>

\* addFileToDeploy from currentFile to its fileExists: an error
\* notification and a return, a rejection, or the call with its list and
\* its relativePath.
targetCall(m, t) ==
  LET currentFile == rootPath \o pathText(t.segments)
      isFileInFileCabinet == Includes(currentFile, ScriptsText)
      isJavaScript == isFileInFileCabinet /\ Includes(currentFile, <<".js">>)
      isTypeScript == Includes(currentFile, <<".ts">>)
      isObject == Includes(currentFile, ObjectsText) /\ Includes(currentFile, <<".xml">>)
      Refused(message) ==
        [m |-> [m EXCEPT !.call = [NoCall EXCEPT !.pc = "done", !.outcome = "invalid"]],
         shown |-> {message}]
      Call(file, toFiles) ==
        [m |-> [m EXCEPT !.call = [pc |-> "exists", isObject |-> ~toFiles,
                                   path |-> replaceFirst(file, rootPath[1], <<"~">>),
                                   outcome |-> "none"]],
         shown |-> {}]
  IN IF ~isFileInFileCabinet /\ ~isJavaScript /\ ~isObject
     THEN IF isTypeScript /\ t.addMatching
          THEN CASE t.matches = "absent" ->
                      [m |-> [m EXCEPT !.call = [NoCall EXCEPT !.pc = "done",
                                                               !.outcome = "threw"]],
                       shown |-> {}]
                 [] t.matches \in {"none", "ambiguous"} -> Refused(NoMatchMessage)
                 [] t.matches = "one" -> Call(MatchedScript, TRUE)
          ELSE Refused(InvalidFileMessage)
     ELSE Call(currentFile, isFileInFileCabinet \/ isJavaScript)

InitTarget ==
  /\ this \in {[o EXCEPT !.rootPath = Some(rootPath)] :
                 o \in {x \in InitThis : x.sdfCliIsInstalled}}
  /\ fs = [osTmpdir |-> <<"tmp">>, tmpDirs |-> {}, staged |-> {},
           rimraf |-> FALSE, made |-> 0]
  /\ task = [t \in Tasks |-> IdleTask]
  /\ shown = {}
  /\ picked = Undefined
  /\ returned = NoReturn
  /\ invoked = 0
  /\ sess = NoSession
  /\ listing = NoListing
  /\ listed = FALSE /\ gl = NoGlob /\ av = NoArgv
  /\ boot = "done" /\ fl = NoFlow
  /\ \E m \in {NoManifest, [NoManifest EXCEPT !.init = "default", !.file = DefaultXml]},
        segments \in TargetSegments, addMatching \in BOOLEAN, matches \in TargetMatches :
       mf = [m EXCEPT !.target = [segments |-> segments, addMatching |-> addMatching,
                                  matches |-> matches]]

\* The user invokes addFileToDeploy on the target.
TargetAdd ==
  /\ mf.call.pc = "none"
  /\ LET r == targetCall(mf, mf.target)
     IN mf' = [r.m EXCEPT !.calls = @ + 1] /\ shown' = r.shown
  /\ MfFrame

NextTarget ==
  \/ TargetAdd
  \/ MfExists
  \/ MfRead
  \/ \E i \in 1..(2 * MaxCalls) : MfWriteOpen(i)
  \/ \E i \in 1..(2 * MaxCalls) : MfWriteDone(i)

SpecTarget == InitTarget /\ [][NextTarget]_vars

\* The target lies under FileCabinet/SuiteScripts; it is an .xml file
\* under Objects.
UnderSuiteScripts(segments) ==
  Len(segments) >= 3 /\ segments[1] = <<"FileCabinet">> /\ segments[2] = <<"SuiteScripts">>

XmlUnderObjects(segments) ==
  /\ Len(segments) >= 2
  /\ segments[1] = <<"Objects">>
  /\ segments[Len(segments)][Len(segments[Len(segments)])] = ".xml"

\* The manifest file as it was before the call, nothing in flight.
ManifestUntouched ==
  /\ mf.pending = <<>>
  /\ mf.file = IF mf.init = "absent" THEN AbsentFile ELSE DefaultXml

\* A compiled script is taken for the target: a TypeScript file, with the
\* setting on and one script of its name found.
Substituted(t) ==
  /\ t.segments[Len(t.segments)][Len(t.segments[Len(t.segments)])] = ".ts"
  /\ t.addMatching
  /\ t.matches = "one"

\* C28: addFileToDeploy on a target that is neither under
\* FileCabinet/SuiteScripts nor an .xml file under Objects, and that no
\* compiled script is taken for, shows an error notification and returns;
\* the manifest file is neither created nor written.
C28_InvalidTargetLeavesManifest ==
  [][/\ ~UnderSuiteScripts(mf.target.segments)
     /\ ~XmlUnderObjects(mf.target.segments)
     /\ ~Substituted(mf.target)
     =>
     /\ mf.call.pc = "none" /\ mf'.call.pc # "none" =>
          /\ shown' \cap {InvalidFileMessage, NoMatchMessage} # {}
          /\ mf'.call.pc = "done"
     /\ ManifestUntouched'
    ]_vars

\* C32: the responses injected into a session's stdin arrive in the order
\* of the prompt lines that triggered them: while the production-deploy
\* prompt of a line still waits for the user's text entry, stdin holds no
\* response to a later line.
C32_ResponsesInPromptOrder ==
  \A n \in 1..Len(sess.prompts), k \in 1..Len(sess.stdin) :
    sess.prompts[n].open => sess.stdin[k].line < sess.prompts[n].line

\* C29: for each output line the notification 'Installation of deployment
\* was completed.' is shown exactly when the line contains 'Installation
\* COMPLETE', and the custom-record error exactly when the line contains
\* 'does not exist.' and not 'That record does not exist.'; what goes to
\* the result and to stdin for the line is the same with or without a
\* notification.
C29_NotificationsPerLine ==
  [][Len(sess'.emitted) = Len(sess.emitted) + 1 =>
       LET line == sess'.emitted[Len(sess'.emitted)]
       IN /\ CompleteMessage \in shown' <=> Includes(line, <<"Installation COMPLETE">>)
          /\ NoRecordMessage \in shown' <=>
               /\ Includes(line, <<"does not exist.">>)
               /\ ~Includes(line, <<"That record ", "does not exist.">>)
          /\ sess'.acc = IF Survives(line)
                         THEN Append(sess.acc, mapCommandOutput(sess.command, line))
                         ELSE sess.acc
          /\ sess'.stdin = IF handleStdIn(line) = "yes"
                           THEN Append(sess.stdin, [line |-> Len(sess'.emitted),
                                                    text |-> "YES\n"])
                           ELSE sess.stdin
    ]_vars

\* C21: every session of a command other than a deploy with useQuickDeploy
\* runs in the project root, with the root as its '-p' value when it has
\* one; the session of a deploy with useQuickDeploy runs in the staging
\* directory made for that deploy; no command runs in the staging
\* directory of an earlier deploy.
C21_WorkingDirectory ==
  \A t \in Tasks :
    task[t].pc = "running" =>
      /\ task[t].cwd = IF task[t].kind = "deploy" /\ task[t].quick /\ IsSet(task[t].tmp)
                       THEN rootPath \o Val(task[t].tmp)
                       ELSE rootPath
      /\ \A i \in 1..(Len(task[t].argv) - 1) :
           task[t].argv[i] = <<"-p">> => task[t].argv[i + 1] = task[t].cwd

\* C22: a step that starts a session ends with a registry and an active
\* environment; a command whose chooser was dismissed while no environment
\* is active returns without a session.
C22_NoSessionWithoutEnvironment ==
  [][\A t \in Tasks :
       /\ task[t].pc # "running" /\ task'[t].pc = "running" =>
            IsSet(this'.sdfConfig) /\ IsSet(this'.activeEnvironment)
       /\ task[t].pc = "chooser" /\ task[t].k = "run" /\ task'[t] # task[t]
            /\ ~IsSet(this'.activeEnvironment) =>
              /\ task'[t].pc = "idle"
              /\ returned'.outcome = "nosession" /\ returned'.spawns = 0
    ]_vars

\* validate has returned without a session after its chooser was dismissed.
C22_Witness ==
  /\ returned.kind = "validate"
  /\ returned.outcome = "nosession"
  /\ returned.spawns = 0
  /\ ~listed
  /\ IsSet(this.sdfConfig)
  /\ ~IsSet(this.activeEnvironment)

(***************************************************************************)
(* The copy loop of _generateTempDeployDirectory, from tmp.dirSync on, and *)
(* the session of the deploy that follows it.                              *)
(***************************************************************************)
StagingName == <<"tmp", TmpName(1)>>

\* copyFile(fromPath, toPath): where the copy of filepath lands.
copyTarget(o, filepath) ==
  rootPath \o pathJoin(Val(o.tempDir).name, filepath)

\* One turn of the for loop inside the try: a copy that fails throws, the
\* catch logs it, and the function returns.
copyNext(o, g) ==
  LET filepath == g.result[g.pos + 1]
  IN IF pathJoin(<<>>, filepath) \in g.unreadable
     THEN [g EXCEPT !.stage = "copied"]
     ELSE [g EXCEPT !.staged = @ \cup {copyTarget(o, filepath)},
                    !.pos = @ + 1,
                    !.stage = IF g.pos + 1 = Len(g.result) THEN "copied" ELSE @]

InitStaging ==
  /\ this \in {[o EXCEPT !.sdfConfig = Some([environments |-> <<[authid |-> <<"a">>]>>]),
                         !.activeEnvironment = Some([authid |-> <<"a">>]),
                         !.rootPath = Some(rootPath),
                         !.tempDir = Some([name |-> StagingName])] :
                 o \in {x \in InitThis : x.sdfCliIsInstalled}}
  /\ fs = [osTmpdir |-> <<"tmp">>, tmpDirs |-> {StagingName}, staged |-> {},
           rimraf |-> FALSE, made |-> 1]
  /\ task = [t \in Tasks |-> IdleTask]
  /\ shown = {}
  /\ picked = Undefined
  /\ returned = NoReturn
  /\ invoked = 0
  /\ sess = NoSession
  /\ listing = NoListing
  /\ listed = FALSE /\ mf = NoManifest /\ av = NoArgv
  /\ boot = "done" /\ fl = NoFlow
  /\ \E files \in SUBSET ProjectFiles, n \in 0..MaxPatterns :
       \E unreadable \in SUBSET files, patterns \in [1..n -> FilePatterns] :
         LET g == [NoGlob EXCEPT !.files = files,
                                 !.dirs = ParentDirs(files),
                                 !.patterns = patterns,
                                 !.unreadable = unreadable]
             allFilePaths == getFilePaths(g, patterns)
         IN gl = [g EXCEPT !.result = allFilePaths, !.done = TRUE,
                           !.stage = IF allFilePaths = <<>> THEN "copied"
                                     ELSE "copying"]

StagingFrame ==
  UNCHANGED <<this, fs, task, shown, picked, returned, invoked, sess, listing,
              listed, mf, av, boot, fl>>

\* The loop copies the next file, or ends.
StagingCopy ==
  /\ gl.stage = "copying"
  /\ gl' = copyNext(this, gl)
  /\ StagingFrame

\* _generateTempDeployDirectory has returned; runCommand spawns sdfcli.
StagingSession ==
  /\ gl.stage = "copied"
  /\ IsSet(this.sdfConfig) /\ IsSet(this.activeEnvironment)
  /\ gl' = [gl EXCEPT !.stage = "session"]
  /\ StagingFrame

NextStaging == StagingCopy \/ StagingSession

SpecStaging == InitStaging /\ [][NextStaging]_vars

\* C23: when the session of the deploy starts, every resolved file whose
\* copy does not fail is in the staging directory, also the files that
\* come after one whose copy failed.
C23_CopyFailureSkipsOneFile ==
  gl.stage = "session" =>
    \A j \in 1..Len(gl.result) :
      pathJoin(<<>>, gl.result[j]) \notin gl.unreadable =>
        copyTarget(this, gl.result[j]) \in gl.staged

====
